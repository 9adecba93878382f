------------------------------ MODULE MCServices ----------------------------
(* The services around the event core: workflows and their templates, rules  *)
(* and their language, telephony and its configuration, technical endpoints, *)
(* accounts and what they may do, settings, and the audit log. They share no *)
(* state, so they are explored one at a time: "part", chosen at the start,   *)
(* names the one that moves. All but the audit log and the workflow take     *)
(* turns with v1 to v13.                                                     *)
EXTENDS AuditChain, TLC

CONSTANTS
  Kind, Edges, StartNode, Actors, MaxOpen, ByLabel,   \* of WorkflowService
  Two,    \* a pair of requests, clerks or administrators
  Pair    \* a pair of something else

VARIABLES part, db, tx, v1, v2, v3, v4, v5, v6, v7, v8, v9, v10, v11, v12, v13

-----------------------------------------------------------------------------
(* Publishable graphs for the workflow.                                      *)

Workflow == INSTANCE WorkflowService

ASSUME WorkflowAssumption ==
  /\ \A n \in DOMAIN Kind : Kind[n] \in Workflow!Kinds
  /\ \A e \in DOMAIN Edges : {Edges[e].from, Edges[e].to} \subseteq DOMAIN Kind
  /\ StartNode \in DOMAIN Kind /\ MaxOpen \in Nat \ {0} /\ ByLabel \in BOOLEAN

Edge(key, from, to, branch, guarded) ==
  [key |-> key, from |-> from, to |-> to, branch |-> branch, guarded |-> guarded]

(* All connectors: an AND block of a manual step and a timer, an OR block of *)
(* an automatic and a manual step, an XOR with a way round a manual step.    *)
BlocksKind ==
  [s |-> "event", a |-> "and_split", f1 |-> "manual", t |-> "timer", j |-> "and_join",
   o |-> "or_split", g |-> "auto", f2 |-> "manual", k |-> "or_join",
   x |-> "xor_split", f3 |-> "manual", y |-> "xor_join", end |-> "event"]
BlocksEdges ==
  << Edge("e01", "s", "a", "", FALSE), Edge("e02", "a", "f1", "", FALSE),
     Edge("e03", "a", "t", "", FALSE), Edge("e04", "f1", "j", "", FALSE),
     Edge("e05", "t", "j", "", FALSE), Edge("e06", "j", "o", "", FALSE),
     Edge("e07", "o", "g", "call", TRUE), Edge("e08", "o", "f2", "visit", TRUE),
     Edge("e09", "g", "k", "", FALSE), Edge("e10", "f2", "k", "", FALSE),
     Edge("e11", "k", "x", "", FALSE), Edge("e12", "x", "y", "skip", TRUE),
     Edge("e13", "x", "f3", "check", TRUE), Edge("e14", "f3", "y", "", FALSE),
     Edge("e15", "y", "end", "", FALSE) >>

(* Two manual steps between an AND split and its join.                       *)
ParallelKind ==
  [s |-> "event", a |-> "and_split", f1 |-> "manual", f2 |-> "manual", j |-> "and_join",
   end |-> "event"]
ParallelEdges ==
  << Edge("e1", "s", "a", "", FALSE), Edge("e2", "a", "f1", "", FALSE),
     Edge("e3", "a", "f2", "", FALSE), Edge("e4", "f1", "j", "", FALSE),
     Edge("e5", "f2", "j", "", FALSE), Edge("e6", "j", "end", "", FALSE) >>

-----------------------------------------------------------------------------
(* Definitions.                                                              *)

(* The versions of a rule with two bodies, one of which the gate rejects;    *)
(* and with one body, read by dry runs.                                      *)
Says(type, complete) ==
  [conditions |-> "valid", actions |-> <<[type |-> type, complete |-> complete]>>]
Rules == INSTANCE RuleVersions WITH
  RuleIds <- {1, 2}, Admins <- Two,
  Bodies <- {Says("create_event", TRUE), Says("attach_workflow", FALSE)},
  rule <- v1, row <- v2, txn <- v3, raced <- v4, dry <- v5
Simulated == INSTANCE RuleVersions WITH
  RuleIds <- {1, 2}, Admins <- Two, Bodies <- {Says("create_event", TRUE)},
  rule <- v1, row <- v2, txn <- v3, raced <- v4, dry <- v5

(* A bounded loop, and a split with no guard on either branch.               *)
Arrow(from, to, guarded) ==
  [from |-> from, to |-> to, guarded |-> guarded, labelled |-> FALSE]
Drawn(type, edges, bounded) ==
  [start |-> "s", type |-> type, edges |-> edges, lacking |-> {}, reentry |-> bounded]
Drawings ==
  [loop |-> Drawn([s |-> "event", j |-> "xor_join", f |-> "function", x |-> "xor_split",
                   e |-> "event"],
                  {Arrow("s", "j", FALSE), Arrow("j", "f", FALSE), Arrow("f", "x", FALSE),
                   Arrow("x", "j", TRUE), Arrow("x", "e", FALSE)}, {"x"}),
   fork |-> Drawn([s |-> "event", x |-> "xor_split", f |-> "function", e |-> "event"],
                  {Arrow("s", "x", FALSE), Arrow("x", "f", FALSE), Arrow("x", "e", FALSE)}, {})]
Templates == INSTANCE TemplateVersions WITH
  VIds <- {1, 2}, Editors <- Two, Graph <- Drawings,
  version <- v1, pinned <- v2, work <- v3, edited <- v4

(* Conditions over every type, right and wrong, nested once, and contexts in *)
(* which a field may be missing.                                             *)
Schema ==
  [severity |-> "number", site |-> "string", tags |-> "list", confirmed |-> "boolean",
   since |-> "datetime"]
Missing == <<"none">>
Num(n) == <<"number", n>>
Str(n) == <<"string", n>>
Yes == <<"boolean", 1>>
List == <<"list", Num(1), Num(0)>>
Field(f) == [field |-> f]
Lit(v) == [lit |-> v]
Expr(op, args) == [op |-> op, args |-> args]
Fields == {Field(f) : f \in DOMAIN Schema \cup {"unheard"}}
Literals == {Lit(Num(1)), Lit(Str(1)), Lit(Yes)}
Compared ==
  {Expr(op, <<a, b>>) : op \in {"eq", "lt", "gte", "ne", "in", "not_in"},
                        a \in Fields \cup Literals, b \in Fields \cup Literals \cup {Lit(List)}}
Simple ==
  {Expr("gte", <<Field("severity"), Lit(Num(1))>>), Expr("eq", <<Field("site"), Lit(Str(1))>>),
   Expr("in", <<Field("severity"), Lit(List)>>), Expr("exists", <<Field("severity")>>),
   Expr("lt", <<Field("site"), Lit(Num(1))>>), Expr("like", <<Field("site")>>),
   Field("confirmed")}
Nested ==
  {Expr(op, <<a, b>>) : op \in {"and", "or", "eq"}, a \in Simple, b \in Simple}
    \cup {Expr(op, <<a>>) : op \in {"not", "and"}, a \in Simple}
Odd == {Expr("and", <<>>), Expr("exists", <<Lit(Num(1))>>), Expr("lt", <<Field("severity")>>)}
Language == INSTANCE RuleLanguage WITH
  Conditions <- Compared \cup Nested \cup Odd,
  Contexts <- {[severity |-> n, site |-> s, tags |-> l, confirmed |-> b, since |-> Str(1)] :
                 n \in {Missing, Num(0), Num(1)}, s \in {Missing, Str(0), Str(1)},
                 l \in {Missing, List}, b \in {Missing, Yes}},
  condition <- v1, verdict <- v2, known <- v3, answer <- v4

-----------------------------------------------------------------------------
(* Telephony and its configuration.                                          *)

TrunkBody(r, u, p, h) ==
  [present |-> TRUE, enabled |-> TRUE, registration |-> r, user |-> u, password |-> p,
   hosts |-> h, caller |-> h]
TrunkConfig == INSTANCE SipTrunks WITH
  Trunks <- {1}, Numbers <- {11}, Requests <- Two, Operators <- {}, MaxMint <- 1,
  TrunkIn <- {TrunkBody(FALSE, FALSE, FALSE, TRUE), TrunkBody(TRUE, TRUE, TRUE, FALSE),
              TrunkBody(TRUE, TRUE, FALSE, FALSE)},
  NumberIn <- {[trunk |-> 1, present |-> TRUE, enabled |-> TRUE, registration |-> r,
                user |-> r, password |-> r, line |-> r] : r \in BOOLEAN},
  trunk <- v1, number <- v2, req <- v3, merged <- v4, export <- v5, phone <- v6,
  minted <- v7, browser <- v8, asterisk <- v9
Phones == INSTANCE SipTrunks WITH
  Trunks <- {}, Numbers <- {}, Requests <- Two, Operators <- Pair, MaxMint <- 3,
  TrunkIn <- {}, NumberIn <- {},
  trunk <- v1, number <- v2, req <- v3, merged <- v4, export <- v5, phone <- v6,
  minted <- v7, browser <- v8, asterisk <- v9

Music == INSTANCE LineMusic WITH
  Files <- Pair, SipLines <- {"l"}, Clerks <- Two,
  file <- v1, disk <- v2, line <- v3, clerk <- v4, box <- v5, torn <- v6

Cached == INSTANCE ProviderCache WITH
  Users <- Pair, Admins <- Two, MaxConfig <- 3, MaxProviders <- 2,
  config <- v1, silent <- v2, cache <- v3, provider <- v4, user <- v5, admin <- v6

(* One source and no profiles; or door profiles and the unmapped signal.     *)
Sources == INSTANCE Endpoints WITH
  Endpoint <- {"e1", "e2"}, Source <- {"s"}, Profile <- {}, Clerk <- Two, DoorClerks <- {},
  Numbered <- {FALSE}, MaxVersion <- 3, MaxSeen <- 0, NoProfile <- "-", NoEndpoint <- "-",
  endpoint <- v1, number <- v2, profile <- v3, camera <- v4, signal <- v5, desk <- v6,
  seen <- v7, tangled <- v8
Signals == INSTANCE Endpoints WITH
  Endpoint <- {"e"}, Source <- {}, Profile <- {"p"}, Clerk <- {"c1", "c2"},
  DoorClerks <- {"c1"}, Numbered <- BOOLEAN, MaxVersion <- 3, MaxSeen <- 2,
  NoProfile <- "-", NoEndpoint <- "-",
  endpoint <- v1, number <- v2, profile <- v3, camera <- v4, signal <- v5, desk <- v6,
  seen <- v7, tangled <- v8

-----------------------------------------------------------------------------
(* Accounts and what they may do.                                            *)

(* Attempts and lockout; passwords and sessions; presence; second factor;    *)
(* security keys.                                                            *)
Few == [authenticate |-> 2, register |-> 1]
Attempted == INSTANCE SignIn WITH
  Requests <- Two, Uses <- {"login", "mistype", "reset"},
  MaxPassword <- 2, MaxFailed <- 2, MaxSessions <- 1, MaxSecret <- 0, MaxStep <- 1,
  MaxChallenge <- Few, Keys <- {},
  cred <- v1, active <- v2, presence <- v3, totp <- v4, codes <- v5, keys <- v6, chal <- v7,
  policy <- v8, session <- v9, req <- v10, now <- v11, mark <- v12
Passwords == INSTANCE SignIn WITH
  Requests <- Two, Uses <- {"login", "change", "reset", "deactivate", "reactivate", "presence"},
  MaxPassword <- 2, MaxFailed <- 1, MaxSessions <- 2, MaxSecret <- 0, MaxStep <- 1,
  MaxChallenge <- Few, Keys <- {},
  cred <- v1, active <- v2, presence <- v3, totp <- v4, codes <- v5, keys <- v6, chal <- v7,
  policy <- v8, session <- v9, req <- v10, now <- v11, mark <- v12
Codes == INSTANCE SignIn WITH
  Requests <- Two, Uses <- {"login", "stepup", "activate", "policy"},
  MaxPassword <- 1, MaxFailed <- 1, MaxSessions <- 1, MaxSecret <- 1, MaxStep <- 2,
  MaxChallenge <- Few, Keys <- {},
  cred <- v1, active <- v2, presence <- v3, totp <- v4, codes <- v5, keys <- v6, chal <- v7,
  policy <- v8, session <- v9, req <- v10, now <- v11, mark <- v12
SecurityKeys == INSTANCE SignIn WITH
  Requests <- Two, Uses <- {"login", "register", "options"},
  MaxPassword <- 1, MaxFailed <- 1, MaxSessions <- 1, MaxSecret <- 0, MaxStep <- 1,
  MaxChallenge <- Few, Keys <- {"k"},
  cred <- v1, active <- v2, presence <- v3, totp <- v4, codes <- v5, keys <- v6, chal <- v7,
  policy <- v8, session <- v9, req <- v10, now <- v11, mark <- v12

Linked == INSTANCE Accounts WITH
  Users <- {1, 2}, Subjects <- Pair, Flows <- {1}, Requests <- Two, Jit <- TRUE,
  user <- v1, identity <- v2, flow <- v3, asked <- v4, had <- v5, crossed <- v6

(* Two people, a team and a loan; or one person whom two providers map.      *)
Administrators == INSTANCE Grants WITH
  People <- {"a", "b"}, Roles <- {"r"}, Teams <- {"t"}, Builtin <- {}, AdminRoles <- {"r"},
  Member <- {<<"b", "t">>}, Providers <- {}, Mappable <- {}, Loans <- {1}, Requests <- Two,
  role <- v1, manage <- v2, userRole <- v3, teamRole <- v4, mapping <- v5, ext <- v6,
  claim <- v7, active <- v8, loan <- v9, req <- v10, hand <- v11, undone <- v12,
  excused <- v13
Mapped == INSTANCE Grants WITH
  People <- {"a"}, Roles <- {"r"}, Teams <- {}, Builtin <- {}, AdminRoles <- {},
  Member <- {}, Providers <- Pair, Mappable <- {"a"} \X Pair, Loans <- {}, Requests <- Two,
  role <- v1, manage <- v2, userRole <- v3, teamRole <- v4, mapping <- v5, ext <- v6,
  claim <- v7, active <- v8, loan <- v9, req <- v10, hand <- v11, undone <- v12,
  excused <- v13

Settings == INSTANCE SettingsStore WITH
  Nodes <- Pair, Requests <- Two, Keys <- {"open", "secret"}, Secret <- {"secret"},
  Values <- {"set"}, Fallback <- "env", Malformed <- "bad", Ttl <- 2, MaxTime <- 3,
  table <- v1, cache <- v2, call <- v3, clock <- v4, was <- v5, served <- v6

-----------------------------------------------------------------------------
rest11 == <<v11, v12, v13>>
rest10 == <<v10, rest11>>
rest9 == <<v9, rest10>>
rest8 == <<v8, rest9>>
rest7 == <<v7, rest8>>
rest6 == <<v6, rest7>>
rest5 == <<v5, rest6>>
slots == <<v1, v2, v3, v4, rest5>>
workflowVars == <<db, tx>>
allVars == <<part, vars, workflowVars, slots>>

Idle11 == v11 = 0 /\ v12 = 0 /\ v13 = 0
Idle10 == v10 = 0 /\ Idle11
Idle9 == v9 = 0 /\ Idle10
Idle8 == v8 = 0 /\ Idle9
Idle7 == v7 = 0 /\ Idle8
Idle6 == v6 = 0 /\ Idle7
Idle5 == v5 = 0 /\ Idle6

Interchangeable == Permutations(Two) \cup Permutations(Pair)

DefinitionsInit ==
  \/ part \in {"audit", "workflow"} /\ v1 = 0 /\ v2 = 0 /\ v3 = 0 /\ v4 = 0 /\ Idle5
  \/ part = "rules" /\ Rules!Init /\ Idle6
  \/ part = "simulate" /\ Simulated!Init /\ Idle6
  \/ part = "templates" /\ Templates!TInit /\ Idle5
  \/ part = "language" /\ Language!RulesInit /\ Idle5

TelephonyInit ==
  \/ part = "trunks" /\ TrunkConfig!SipInit /\ Idle10
  \/ part = "phones" /\ Phones!SipInit /\ Idle10
  \/ part = "music" /\ Music!MusicInit /\ Idle7
  \/ part = "cache" /\ Cached!CacheInit /\ Idle7
  \/ part = "sources" /\ Sources!EndpointsInit /\ Idle9
  \/ part = "signals" /\ Signals!EndpointsInit /\ Idle9

PeopleInit ==
  \/ part = "attempts" /\ Attempted!SignInInit /\ v13 = 0
  \/ part = "passwords" /\ Passwords!SignInInit /\ v13 = 0
  \/ part = "codes" /\ Codes!SignInInit /\ v13 = 0
  \/ part = "keys" /\ SecurityKeys!SignInInit /\ v13 = 0
  \/ part = "accounts" /\ Linked!AccountsInit /\ Idle7
  \/ part = "grants" /\ Administrators!GrantsInit
  \/ part = "mapped" /\ Mapped!GrantsInit
  \/ part = "settings" /\ Settings!SettingsInit /\ Idle7

MCInit == Init /\ Workflow!Init /\ (DefinitionsInit \/ TelephonyInit \/ PeopleInit)

DefinitionsNext ==
  \/ part = "rules" /\ Rules!RulesNext /\ UNCHANGED rest6
  \/ part = "simulate" /\ Simulated!Next /\ UNCHANGED rest6
  \/ part = "templates" /\ Templates!TNext /\ UNCHANGED rest5
  \/ part = "language" /\ Language!RulesNext /\ UNCHANGED rest5

TelephonyNext ==
  \/ part = "trunks" /\ TrunkConfig!SipNext /\ UNCHANGED rest10
  \/ part = "phones" /\ Phones!PhonesNext /\ UNCHANGED rest10
  \/ part = "music" /\ Music!MusicNext /\ UNCHANGED rest7
  \/ part = "cache" /\ Cached!CacheNext /\ UNCHANGED rest7
  \/ part = "sources" /\ Sources!EndpointsNext /\ UNCHANGED rest9
  \/ part = "signals" /\ Signals!EndpointsNext /\ UNCHANGED rest9

PeopleNext ==
  \/ part = "attempts" /\ Attempted!SignInNext /\ UNCHANGED v13
  \/ part = "passwords" /\ Passwords!SignInNext /\ UNCHANGED v13
  \/ part = "codes" /\ Codes!SignInNext /\ UNCHANGED v13
  \/ part = "keys" /\ SecurityKeys!SignInNext /\ UNCHANGED v13
  \/ part = "accounts" /\ Linked!AccountsNext /\ UNCHANGED rest7
  \/ part = "grants" /\ Administrators!GrantsNext
  \/ part = "mapped" /\ Mapped!GrantsNext
  \/ part = "settings" /\ Settings!SettingsNext /\ UNCHANGED rest7

MCNext ==
  /\ \/ part = "audit" /\ Next /\ UNCHANGED <<workflowVars, slots>>
     \/ part = "workflow" /\ Workflow!Next /\ UNCHANGED <<vars, slots>>
     \/ (DefinitionsNext \/ TelephonyNext \/ PeopleNext) /\ UNCHANGED <<vars, workflowVars>>
  /\ UNCHANGED part

MCSpec == MCInit /\ [][MCNext]_allVars
WorkflowSpec == MCInit /\ part = "workflow" /\ [][MCNext]_allVars
LanguageSpec == MCInit /\ part = "language" /\ [][MCNext]_allVars

-----------------------------------------------------------------------------
(* The engine drives an instance to its end: it parks and never strands one, *)
(* an OR join waits for every branch that can still arrive, no step is       *)
(* entered twice, and an instance is completed exactly with its last token.  *)
InstancesAdvance ==
  part = "workflow" =>
    /\ Workflow!NoDeadEnd /\ Workflow!OrJoinFires
    /\ Workflow!StepEnteredOnce /\ Workflow!CompletionIsExact

(* simulate.py and the live engine take the same path.                       *)
DryRunIsFaithful == part = "workflow" => Workflow!DryRunAgrees

(* engine.py: an AND join "fires once a token is parked for every incoming   *)
(* edge".                                                                    *)
AndJoinFires == part = "workflow" => Workflow!AndJoinFires

(* What the trigger engine and the workflow service find published has       *)
(* passed its gate: rule versions except where publications, retirements and *)
(* edits overlapped, template versions except where edits overlapped; and a  *)
(* rule's dry run reports the version it matched.                            *)
PublishedIsSound ==
  /\ part = "rules" => Rules!TypeOK /\ Rules!PublishedIsServed
  /\ part = "simulate" => Simulated!TypeOK /\ Simulated!PublishedIsServed
  /\ part = "templates" => Templates!TemplateTypeOK /\ Templates!RunnableIsSound

(* A rule version that is published says what it said when it was published. *)
PublishedIsFrozen == [][part = "rules" => Rules!PublishedIsFrozen]_allVars

(* Wherever a published condition is used it says what it means, or fails on *)
(* one of the things publishing does not look at (ContextSchema.validate).   *)
ConditionsMean == part = "language" => Language!LanguageTypeOK /\ Language!ConditionsMean

(* rules.py, rule_matches: "Total + deterministic".                          *)
MatchingIsTotal == part = "language" => Language!MatchingIsTotal

(* An exported telephone configuration refers to sections it contains, and   *)
(* browsers and the loaded configuration agree on every softphone, however   *)
(* trunk, number, rotate and set_endpoint requests overlap.                  *)
SipConfigurationFits ==
  /\ part = "trunks" => TrunkConfig!SipTypeOK /\ TrunkConfig!ExportRegisters
  /\ part = "phones" => Phones!SipTypeOK /\ Phones!SoftphonesAgree

(* A listed music file, and one a line plays, has its bytes on the disk,     *)
(* whatever upload, assign, delete and fetch do meanwhile and where they die.*)
MusicHasBytes == part = "music" => Music!MusicTypeOK /\ Music!MusicHasBytes

(* An alarm source and its cameras hang on one endpoint, unless requests     *)
(* overlapped; an unmapped signal counts every occurrence while it is being  *)
(* resolved (configure_alarm_source, record_unmapped, resolve).              *)
EndpointsAgree ==
  /\ part = "sources" => Sources!EndpointsTypeOK /\ Sources!AlarmSourcesAgree
  /\ part = "signals" =>
       Signals!EndpointsTypeOK /\ Signals!AlarmSourcesAgree /\ Signals!OccurrencesKept

(* Signing in: the lock follows the failed attempts, sessions end with the   *)
(* password or the account they were opened with, and a second factor that   *)
(* is owed is asked for, and accepted once; each except where two requests   *)
(* of the account had read the same row (LocalAuthService, SessionService,   *)
(* TotpService, WebAuthnService).                                            *)
SignInsAreSound ==
  /\ part = "attempts" => Attempted!SignInTypeOK /\ Attempted!AttemptsAreCounted
  /\ part = "passwords" => Passwords!SignInTypeOK /\ Passwords!SessionsFollowAccount
  /\ part = "codes" =>
       /\ Codes!SignInTypeOK /\ Codes!FactorsAreHonoured /\ Codes!SessionsFollowAccount
  /\ part = "keys" => SecurityKeys!SignInTypeOK /\ SecurityKeys!FactorsAreHonoured

(* An account keeps a way to sign in, and a login flow is finished once,     *)
(* unless two of its own requests overlapped (AuthLinkingService).           *)
AccountsReachable ==
  part = "accounts" => Linked!AccountsTypeOK /\ Linked!AccountsReachable /\ Linked!FlowsFinishOnce

(* There is always an administrator unless two changes overlapped, every     *)
(* role that is held can be taken back by whoever gave it, and what is lent  *)
(* was the lender's to lend (rbac.py, sync_user_roles, DelegationService).   *)
GrantsAreAccounted ==
  /\ part = "grants" =>
       /\ Administrators!GrantsTypeOK /\ Administrators!LastAdminKept
       /\ Administrators!RolesAreAccounted /\ Administrators!LoansAreBacked
  /\ part = "mapped" => Mapped!GrantsTypeOK /\ Mapped!RolesAreAccounted

(* What is cached lags within bounds. The telephony provider lags behind its *)
(* configuration only by what does not evict it, or by a change that         *)
(* overlapped its building; a node answers with settings the table held      *)
(* together within the lifetime of its cache (get_registry, SettingsService).*)
CachesLagWithinBounds ==
  /\ part = "cache" => Cached!CacheTypeOK /\ Cached!StaleOnlyByOverlap
  /\ part = "settings" => Settings!SettingsTypeOK /\ Settings!ServedWithinTtl
=============================================================================
