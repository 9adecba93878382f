------------------------------ MODULE SipTrunks -----------------------------
(* SIP trunks, their public numbers, and the Asterisk configuration that is  *)
(* generated from them (sip_trunk_config.py). A PUT reads the row, merges    *)
(* the body into it, checks the merged row and writes the columns that       *)
(* differ from what it read; an export reads the trunks, then the numbers.   *)
(* The operators' browser softphones (sip_webrtc_config.py) are rows of      *)
(* their own: Asterisk learns of them by the export, a browser by asking for *)
(* its credentials. SipNext and PhonesNext are checked apart.                *)
EXTENDS FiniteSetsExt, Integers

CONSTANTS
  Trunks,    \* trunk slugs, numbered in their order
  Numbers,   \* public numbers, disjoint from Trunks
  Requests,  \* open requests
  TrunkIn, NumberIn,  \* the bodies of the PUTs that pass the field checks
  Operators, \* owners of softphones
  MaxMint    \* bound: names and passwords minted

VARIABLES
  trunk,     \* trunk[t]: the row, or None
  number,    \* number[n]: the row, or None
  req,       \* req[r]: the open request with the rows it read
  merged,    \* auxiliary: rows that two overlapping writes have put together
  export,    \* what became of the last export
  phone,     \* phone[u]: the softphone row of operator u, or None
  minted,    \* minted[u]: the password last committed, a number not in use
  browser,   \* browser[u]: the credentials the browser holds
  asterisk   \* the endpoints Asterisk has loaded

phoneVars == <<phone, minted, browser, asterisk>>
sipVars == <<trunk, number, req, merged, export, phoneVars>>

None == [present |-> FALSE]
Waiting == [op |-> "idle"]

(* Of a row's columns only those are kept that another column or the         *)
(* generator depends on: whether user, password, match_hosts, caller_id and  *)
(* the number's line are set.                                                *)
SipTrunk == [present : {TRUE}, enabled : BOOLEAN, registration : BOOLEAN, user : BOOLEAN,
             password : BOOLEAN, hosts : BOOLEAN, caller : BOOLEAN]
SipNumber == [present : {TRUE}, enabled : BOOLEAN, registration : BOOLEAN, user : BOOLEAN,
              password : BOOLEAN, line : BOOLEAN, trunk : Trunks]

SipWebrtcEndpoint == [present : {TRUE}, enabled : BOOLEAN, name : 1..MaxMint, password : 1..MaxMint]

SipTypeOK ==
  /\ \A t \in Trunks : trunk[t] = None \/ trunk[t] \in SipTrunk
  /\ \A n \in Numbers : number[n] = None \/ number[n] \in SipNumber
  /\ \A r \in Requests : req[r].op \in {"idle", "set_trunk", "set_number", "render", "set_phone"}
  /\ \A u \in Operators : phone[u] = None \/ phone[u] \in SipWebrtcEndpoint

SipInit ==
  /\ trunk = [t \in Trunks |-> None]
  /\ number = [n \in Numbers |-> None]
  /\ req = [r \in Requests |-> Waiting]
  /\ merged = {}
  /\ export = "none"
  /\ phone = [u \in Operators |-> None]
  /\ minted = [u \in Operators |-> 0]
  /\ browser = [u \in Operators |-> None]
  /\ asterisk = None

Open == {r \in Requests : req[r] # Waiting}
Begin(r, q) == req[r] = Waiting /\ req' = [req EXCEPT ![r] = q]
Finish(r) == req' = [req EXCEPT ![r] = Waiting]

(* The row a PUT with this body leaves behind, as far as it knows: an empty  *)
(* password keeps the stored one.                                            *)
Merge(read, body) ==
  [body EXCEPT !.password = @ \/ (read.present /\ read.password)]

(* The check that follows the merge.                                         *)
Registers(row) == row.registration => row.user /\ row.password

(* The UPDATE: columns that differ from what was read.                       *)
Write(now, read, row) ==
  [f \in DOMAIN row |-> IF read.present /\ row[f] = read[f] THEN now[f] ELSE row[f]]

(* An INSERT meets no row with its key, an UPDATE meets one.                 *)
Fits(now, read) == now.present = read.present

Mix(key, asRead) == merged' = IF asRead THEN merged \ {key} ELSE merged \cup {key}

-----------------------------------------------------------------------------
(* PUT /trunks/{id}: the row is read, merged and checked.                    *)
PutSipTrunk(r, t, body) ==
  LET row == Merge(trunk[t], body) IN
  /\ Registers(row)
  /\ Begin(r, [op |-> "set_trunk", key |-> t, read |-> trunk[t], row |-> row])
  /\ UNCHANGED <<trunk, number, merged, export, phoneVars>>

(* set_trunk: the flush and the commit.                                      *)
SetTrunk(r) ==
  LET q == req[r] IN
  /\ q.op = "set_trunk"
  /\ Fits(trunk[q.key], q.read)
  /\ trunk' = [trunk EXCEPT ![q.key] = Write(@, q.read, q.row)]
  /\ Mix(q.key, trunk[q.key] = q.read)
  /\ Finish(r) /\ UNCHANGED <<number, export, phoneVars>>

(* delete_trunk: the numbers of the trunk go with it.                        *)
DeleteTrunk(t) ==
  /\ trunk[t].present
  /\ trunk' = [trunk EXCEPT ![t] = None]
  /\ number' = [n \in Numbers |-> IF number[n].present /\ number[n].trunk = t THEN None ELSE number[n]]
  /\ merged' = merged \ {t}
  /\ UNCHANGED <<req, export, phoneVars>>

(* PUT /numbers/{e164}: the trunk exists, the number is read, merged and     *)
(* checked.                                                                  *)
PutSipNumber(r, n, body) ==
  LET row == Merge(number[n], body) IN
  /\ trunk[body.trunk].present
  /\ Registers(row)
  /\ Begin(r, [op |-> "set_number", key |-> n, read |-> number[n], row |-> row])
  /\ UNCHANGED <<trunk, number, merged, export, phoneVars>>

(* set_number: the foreign key holds when the row is written.                *)
SetNumber(r) ==
  LET q == req[r]
      new == Write(number[q.key], q.read, q.row) IN
  /\ q.op = "set_number"
  /\ Fits(number[q.key], q.read)
  /\ trunk[new.trunk].present
  /\ number' = [number EXCEPT ![q.key] = new]
  /\ Mix(q.key, number[q.key] = q.read)
  /\ Finish(r) /\ UNCHANGED <<trunk, export, phoneVars>>

(* delete_number                                                             *)
DeleteNumber(n) ==
  /\ number[n].present
  /\ number' = [number EXCEPT ![n] = None]
  /\ merged' = merged \ {n}
  /\ UNCHANGED <<trunk, req, export, phoneVars>>

(* A violated constraint or a row that is gone: the request ends in an error.*)
Fail(r) == r \in Open /\ Finish(r) /\ UNCHANGED <<trunk, number, merged, export, phoneVars>>

-----------------------------------------------------------------------------
(* The generator. A section has a name (its trunk, its number, its suffix),  *)
(* a type and the names it refers to.                                        *)
Section(name, type, refs) == [name |-> name, type |-> type, refs |-> refs]
Ref(name, type) == [name |-> name, type |-> type]
Endpoint(t) == Ref(<<t, 0, "">>, "endpoint")

(* _registration_block: it names the auth section beside it.                 *)
RegistrationBlock(t, n) ==
  Section(<<t, n, "reg">>, "registration", {Ref(<<t, n, "auth">>, "auth"), Endpoint(t)})

(* _render_pjsip, for a trunk and for its numbers.                           *)
TrunkSections(t, row) ==
  LET auth == <<t, 0, "auth">>
      aor == <<t, 0, "aor">>
      known == row.user
  IN  {Section(<<t, 0, "">>, "endpoint", {Ref(<<t, 0, "from">>, "context")} \cup
                 IF known THEN {Ref(auth, "auth"), Ref(aor, "aor")} ELSE {})}
      \cup (IF known THEN {Section(auth, "auth", {}), Section(aor, "aor", {})} ELSE {})
      \cup (IF row.registration /\ known THEN {RegistrationBlock(t, 0)} ELSE {})
      \cup (IF row.hosts THEN {Section(<<t, 0, "identify">>, "identify", {Endpoint(t)})} ELSE {})

NumberSections(t, n, row) ==
  IF row.registration /\ row.user /\ row.password
  THEN {Section(<<t, n, "auth">>, "auth", {}), RegistrationBlock(t, n)}
  ELSE {}

(* _render_extensions: one context per trunk, and the outbound context that  *)
(* dials through the first trunk with a caller id, or the first of all.      *)
RenderExtensions(T, rows) ==
  LET callers == {t \in T : rows[t].caller}
      default == Min(IF callers # {} THEN callers ELSE T)
  IN  {Section(<<t, 0, "from">>, "context", {}) : t \in T}
      \cup IF T = {} THEN {} ELSE {Section(<<0, 0, "out">>, "context", {Endpoint(default)})}

Enabled(rows) == {k \in DOMAIN rows : rows[k].present /\ rows[k].enabled}
NumbersOf(t, numbers) == {n \in Enabled(numbers) : numbers[n].trunk = t}

RenderPjsipOfAll(T, trunks, numbers) ==                           \* mutant
  UNION {TrunkSections(t, trunks[t]) : t \in T}
  \cup UNION {NumberSections(numbers[n].trunk, n, numbers[n]) : n \in Enabled(numbers)}

RenderPjsip(T, trunks, numbers) ==
  UNION {TrunkSections(t, trunks[t])
         \cup UNION {NumberSections(t, n, numbers[n]) : n \in NumbersOf(t, numbers)} : t \in T}

(* Every password that is written out must decrypt: an unset one does not.   *)
DecryptTrunkPassword(T, rows) == \A t \in T : rows[t].user => rows[t].password

(* outbound_line_map: the endpoints through which the lines dial out.        *)
OutboundLineMap(trunks, numbers) ==
  {Endpoint(t) : t \in {u \in Enabled(trunks) : \E n \in NumbersOf(u, numbers) : numbers[n].line}}

(* Every name a section refers to is that of exactly one section.            *)
Closed(sections, routes) ==
  /\ \A x \in routes \cup UNION {s.refs : s \in sections} :
       \E d \in sections : d.name = x.name /\ d.type = x.type
  /\ \A s, d \in sections : s.name = d.name => s = d

(* GET /asterisk-config: the first SELECT of render_asterisk_config ...      *)
GetAsteriskConfig(r) ==
  /\ Begin(r, [op |-> "render", trunks |-> trunk])
  /\ UNCHANGED <<trunk, number, merged, export, phoneVars>>

(* ... then the second, and the text of both.                                *)
RenderAsteriskConfig(r) ==
  LET rows == req[r].trunks
      T == Enabled(rows)
      sections == RenderPjsip(T, rows, number) \cup RenderExtensions(T, rows) IN
  /\ req[r].op = "render"
  /\ export' = IF ~DecryptTrunkPassword(T, rows) THEN "failed"
               ELSE IF Closed(sections, OutboundLineMap(rows, number)) THEN "closed"
               ELSE "dangling"
  /\ Finish(r) /\ UNCHANGED <<trunk, number, merged, phoneVars>>

-----------------------------------------------------------------------------
(* set_endpoint, up to the flush: a new row gets a name and a password, an   *)
(* old one a new password when asked to. The row the request means to leave: *)
PutWebrtcEndpoint(r, u, enabled, rotate) ==
  LET read == phone[u]
      rows == {phone[v] : v \in {o \in Operators : phone[o].present}}
              \cup {req[q].row : q \in {o \in Open : req[o].op = "set_phone"}}
      fresh == (1..MaxMint) \ UNION {{row.name, row.password} : row \in rows}
      mint == Min(fresh) IN
  /\ fresh # {}
  /\ Begin(r, [op |-> "set_phone", key |-> u, read |-> read, row |->
        [present |-> TRUE, enabled |-> enabled,
         name |-> IF read.present THEN read.name ELSE mint,
         password |-> IF read.present /\ ~rotate THEN read.password ELSE mint]])
  /\ UNCHANGED <<trunk, number, merged, export, phoneVars>>

(* What has been fetched or exported of u is no longer up to date.           *)
Outdated(u) ==
  /\ browser' = [browser EXCEPT ![u] = None]
  /\ asterisk' = None

(* set_endpoint, the flush and the commit.                                   *)
SetEndpoint(r) ==
  LET q == req[r] IN
  /\ q.op = "set_phone" /\ Fits(phone[q.key], q.read)
  /\ phone' = [phone EXCEPT ![q.key] = Write(@, q.read, q.row)]
  /\ minted' = [minted EXCEPT ![q.key] =
                  IF q.read.present /\ q.row.password = q.read.password THEN @ ELSE q.row.password]
  /\ Outdated(q.key)
  /\ Finish(r) /\ UNCHANGED <<trunk, number, merged, export>>

(* delete_endpoint                                                           *)
DeleteEndpoint(u) ==
  /\ phone[u].present
  /\ phone' = [phone EXCEPT ![u] = None]
  /\ Outdated(u)
  /\ UNCHANGED <<trunk, number, req, merged, export, minted>>

Serves(u) == phone[u].present /\ phone[u].enabled

(* GET /webrtc-credentials: none for an operator without an enabled row.     *)
WebrtcCredentials(u) ==
  /\ Serves(u)
  /\ browser' = [browser EXCEPT ![u] = phone[u]]
  /\ UNCHANGED <<trunk, number, req, merged, export, phone, minted, asterisk>>

(* render_pjsip: the softphones' part of the export, loaded by the sync      *)
(* script. An endpoint, its auth and its aor share the name.                 *)
RenderPhones ==
  /\ asterisk' = [present |-> TRUE, endpoints |->
        {[name |-> phone[u].name, password |-> phone[u].password] : u \in {v \in Operators : Serves(v)}}]
  /\ UNCHANGED <<trunk, number, req, merged, export, phone, minted, browser>>

(* operator_endpoint_map: where a call of operator u rings.                  *)
OperatorEndpointMap == [u \in {v \in Operators : Serves(v)} |-> phone[u].name]

PhonesNext ==
  \/ \E r \in Requests :
       \/ \E u \in Operators, enabled, rotate \in BOOLEAN : PutWebrtcEndpoint(r, u, enabled, rotate)
       \/ SetEndpoint(r) \/ Fail(r)
  \/ \E u \in Operators : DeleteEndpoint(u) \/ WebrtcCredentials(u)
  \/ RenderPhones

SipNext ==
  \/ \E r \in Requests :
       \/ \E t \in Trunks, body \in TrunkIn : PutSipTrunk(r, t, body)
       \/ \E n \in Numbers, body \in NumberIn : PutSipNumber(r, n, body)
       \/ SetTrunk(r) \/ SetNumber(r) \/ GetAsteriskConfig(r) \/ RenderAsteriskConfig(r) \/ Fail(r)
  \/ \E t \in Trunks : DeleteTrunk(t)
  \/ \E n \in Numbers : DeleteNumber(n)

SipSpec == SipInit /\ [][SipNext]_sipVars

-----------------------------------------------------------------------------
(* What registers has a user and a password unless two writes of its row     *)
(* overlapped, a number always has its trunk, and whatever the two SELECTs   *)
(* of an export saw, every name that a section or an outbound route refers   *)
(* to is the name of one section of that type.                               *)
ExportRegisters ==
  /\ \A t \in Trunks : trunk[t].present /\ t \notin merged => Registers(trunk[t])
  /\ \A n \in Numbers : number[n].present =>
       trunk[number[n].trunk].present /\ (n \notin merged => Registers(number[n]))
  /\ export # "dangling"

(* set_endpoint writes the columns it changes: a rotated password survives a *)
(* switch of the endpoint that overlaps it. A browser that asks after the    *)
(* last change and an Asterisk that loads after it agree, and every call is  *)
(* rung at a loaded endpoint, one per operator.                              *)
SoftphonesAgree ==
  /\ \A u \in Operators : phone[u].present => phone[u].password = minted[u]
  /\ asterisk.present => \A u \in Operators :
       /\ browser[u].present => [name |-> browser[u].name, password |-> browser[u].password] \in asterisk.endpoints
       /\ u \in DOMAIN OperatorEndpointMap =>
            Cardinality({e \in asterisk.endpoints : e.name = OperatorEndpointMap[u]}) = 1
=============================================================================
