----------------------------- MODULE MCOperators ----------------------------
(* What operators' requests work on: calls, one transaction at a time        *)
(* ("serial") or two ("race"), the channels and bridges of a call that comes *)
(* "in" or goes "out", the commands table that makes requests idempotent     *)
(* ("commands"), the contact book ("book") and the lookups of callers in it  *)
(* ("lookup"), the monitor wall, the popups and the cameras.                 *)
(* They share no state, so one moves while the others rest; "part" is chosen *)
(* at the start. All but the calls take turns with v1 to v14.                *)
EXTENDS CallLifecycle, TLC

CONSTANTS Bodies, Attempts, None, aCall

VARIABLES part, v1, v2, v3, v4, v5, v6, v7, v8, v9, v10, v11, v12, v13, v14

Serial == INSTANCE CallLifecycle WITH MaxOpen <- 1
Race == INSTANCE CallLifecycle WITH MaxOpen <- 2, MaxDocuments <- 0

Cmd == INSTANCE Commands WITH
  Ids <- {"create", "guarded"}, Guarded <- {"guarded"}, MaxSends <- 4, MaxFaults <- 2,
  Housekeeping <- TRUE,
  row <- v1, pc <- v2, cmd <- v3, body <- v4, version <- v5, expected <- v6, done <- v7,
  ok <- v8, lapsed <- v9, sends <- v10, faults <- v11

CallsIn == INSTANCE SipAdapter WITH
  Inbound <- {aCall}, Outbound <- {}, Musical <- {aCall}, Keys <- Bodies, Handlers <- Attempts,
  Legs <- {1}, MaxStream <- 1,
  chan <- v1, leg <- v2, bridge <- v3, stream <- v4, know <- v5, job <- v6, out <- v7,
  sent <- v8, fault <- v9
CallsOut == INSTANCE SipAdapter WITH
  Inbound <- {}, Outbound <- {aCall}, Musical <- {}, Keys <- Bodies, Handlers <- Attempts,
  Legs <- {1, 2}, MaxStream <- 2,
  chan <- v1, leg <- v2, bridge <- v3, stream <- v4, know <- v5, job <- v6, out <- v7,
  sent <- v8, fault <- v9

(* A number with country code, the same with 00 and with a trunk 0, an       *)
(* extension, and a number of nobody.                                        *)
Number(plus, digits) == [plus |-> plus, digits |-> digits]
Dialled ==
  {Number(TRUE, <<4, 1, 2, 3>>), Number(FALSE, <<0, 0, 4, 1, 2, 3>>),
   Number(FALSE, <<0, 1, 2, 3>>), Number(FALSE, <<1, 2>>), Number(FALSE, <<5, 1, 2, 3>>)}
Book == INSTANCE Contacts WITH
  Persons <- {"c1"}, Entries <- {"c1"} \X {<<4, 1, 2>>, <<1, 2, 3>>},
  Country <- <<4>>, Levels <- Bodies, Editors <- Attempts, Callers <- {},
  MinDigits <- 3, MaxExtensionLen <- 2, MinMatchDigits <- 3, MaxExtensionDigits <- 1,
  CacheTtl <- 2, MaxTrail <- 2, MaxName <- 1,
  contact <- v1, entry <- v2, priority <- v3, trail <- v4, edit <- v5, cache <- v6,
  lookup <- v7, recent <- v8, crossed <- v9, misled <- v10
Lookup == INSTANCE Contacts WITH
  Persons <- {"c1", "c2"},
  Entries <- ({"c1"} \X {<<4, 1, 2>>, <<1, 2, 3>>}) \cup {<<"c2", <<4, 1, 2>>>>},
  Country <- <<4>>, Levels <- Bodies, Editors <- {}, Callers <- Sessions,
  MinDigits <- 3, MaxExtensionLen <- 2, MinMatchDigits <- 3, MaxExtensionDigits <- 1,
  CacheTtl <- 1, MaxTrail <- 2, MaxName <- 2,
  contact <- v1, entry <- v2, priority <- v3, trail <- v4, edit <- v5, cache <- v6,
  lookup <- v7, recent <- v8, crossed <- v9, misled <- v10

Layout(o1) == [low |-> "os", o1 |-> o1]
Screens == INSTANCE Displays WITH
  Outputs <- {"low", "o1"}, Inputs <- {"os", "a", "b"}, FixedOutput <- "low",
  FixedInput <- "os", Standard <- Layout("a"), Layouts <- {Layout("a"), Layout("b")},
  Wishes <- {[o1 |-> "b"], [low |-> "a"]}, Orders <- Attempts, Popups <- {"p"},
  Viewers <- Attempts, Cameras <- {"k1", "k2"}, Focuses <- {"f1"}, MaxAttempts <- 2,
  wall <- v1, replays <- v2, route <- v3, profile <- v4, order <- v5, torn <- v6,
  popup <- v7, view <- v8, shown <- v9, action <- v10, log <- v11, panel <- v12,
  last <- v13, blurred <- v14

rest11 == <<v11, v12, v13, v14>>
slots == <<v1, v2, v3, v4, v5, v6, v7, v8, v9, v10, rest11>>
allVars == <<part, vars, slots>>

Interchangeable == Permutations(Attempts) \cup Permutations(Bodies)

Idle12 == v12 = 0 /\ v13 = 0 /\ v14 = 0
Idle11 == v11 = 0 /\ Idle12
Idle10 == v10 = 0 /\ Idle11

MCInit ==
  /\ Init
  /\ \/ /\ part \in {"serial", "race"} /\ Idle10 /\ v1 = 0 /\ v2 = 0 /\ v3 = 0 /\ v4 = 0
        /\ v5 = 0 /\ v6 = 0 /\ v7 = 0 /\ v8 = 0 /\ v9 = 0
     \/ part = "in" /\ CallsIn!SipInit /\ Idle10
     \/ part = "out" /\ CallsOut!SipInit /\ Idle10
     \/ part = "commands" /\ Cmd!Init /\ Idle12
     \/ part = "book" /\ Book!ContactsInit /\ Idle11
     \/ part = "lookup" /\ Lookup!ContactsInit /\ Idle11
     \/ /\ part \in {"wall", "popups", "cameras"}
        /\ Screens!WallInit /\ Screens!PopupsInit /\ Screens!CamerasInit

CallPart == (part = "serial" /\ Serial!Next) \/ (part = "race" /\ Race!Next)
CommandPart == part = "commands" /\ Cmd!Next /\ UNCHANGED <<v12, v13, v14>>
ChannelPart ==
  /\ (part = "in" /\ CallsIn!SipNext) \/ (part = "out" /\ CallsOut!SipNext)
  /\ UNCHANGED <<v10, rest11>>
BookPart ==
  /\ (part = "book" /\ Book!ContactsNext) \/ (part = "lookup" /\ Lookup!ContactsNext)
  /\ UNCHANGED rest11
ScreenPart ==
  \/ part = "wall" /\ Screens!WallNext
  \/ part = "popups" /\ Screens!PopupsNext
  \/ part = "cameras" /\ Screens!CamerasNext

MCNext ==
  /\ \/ CallPart /\ UNCHANGED slots
     \/ (ChannelPart \/ CommandPart \/ BookPart \/ ScreenPart) /\ UNCHANGED vars
  /\ UNCHANGED part

MCSpec == MCInit /\ [][MCNext]_allVars

(* call.py: "the call already ended - ignore a late / replayed event", and   *)
(* hangup_call: "only closed once it has a documentation category": as long  *)
(* as the transactions of a call do not overlap, a terminal call stays so,   *)
(* and whoever hangs up leaves it documented or with an open obligation.     *)
EndedStaysEnded == [][part = "serial" => StaysTerminal /\ LeavesObligation]_<<part, vars>>

(* idempotent: with a version guard the effect commits at most once; without *)
(* one only an abandoned or purged row lets it repeat; and a success that is *)
(* answered to a client is a committed effect of the same body.              *)
CommandsTellTruth ==
  part = "commands" => Cmd!CommandsTellTruth

(* What the adapter tells of a channel is so: an operator's leg is reported  *)
(* answered only when it is, and no bridge outlives the channels it joined,  *)
(* unless the telephone system refused a request (SipAsteriskProvider).      *)
LegsAreTrue ==
  /\ part = "in" => CallsIn!AnswersMatch /\ CallsIn!BridgesReaped
  /\ part = "out" => CallsOut!AnswersMatch /\ CallsOut!BridgesReaped

(* The book of contacts, its primaries and priorities, is consistent unless  *)
(* edits overlapped; the caller shown for a number is one that ContactMatcher*)
(* found within the cache's time to live, however the number is spelt.       *)
CallersAreKnown ==
  /\ part = "book" => Book!ContactsTypeOK /\ Book!BookIsConsistent
  /\ part = "lookup" => Lookup!CallerIsRecent

(* The wall shows the routes apply_assignments recorded, a popup is audited  *)
(* as delivered once, and the camera panel tells the last outcome of the     *)
(* video system, except where requests overlapped or were cut off.           *)
ScreensTellTruth ==
  /\ part = "wall" => Screens!DisplaysTypeOK /\ Screens!WallShowsRoutes
  /\ part = "popups" => Screens!DeliveredOnce
  /\ part = "cameras" => Screens!CamerasTellTruth
=============================================================================
