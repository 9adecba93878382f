------------------------------- MODULE Contacts -------------------------------
(***************************************************************************)
(* The phone book: contacts, their numbers with at most one primary, the   *)
(* call priority with its event trail, and the resolution of a caller's    *)
(* number to a contact through a cache that lives for a while.             *)
(*                                                                         *)
(* A number is a sequence of digits; the lengths the code compares with    *)
(* are constants, so that short sequences reach every rule.                *)
(***************************************************************************)
EXTENDS FiniteSets, Integers, Sequences, SequencesExt

CONSTANTS
  Persons,        \* contacts
  Entries,        \* <<contact, e164>> pairs that may be stored
  Dialled,        \* numbers as they arrive: [plus, digits]
  Country,        \* the country code, a sequence of digits
  Levels,         \* call priorities
  Editors,        \* the requests that may edit at once
  Callers,        \* the lookups that may run at once
  MinDigits, MaxExtensionLen, MinMatchDigits, MaxExtensionDigits,
  CacheTtl, MaxTrail, MaxName

VARIABLES
  contact,   \* contacts: 0 not there, n the n-th name, -1 soft-deleted
  entry,     \* contact_numbers: "no", "plain" or "primary"
  priority,  \* contact_priorities of the one contact, "none" without a row
  trail,     \* its CONTACT_PRIORITY_CHANGED events, in order
  edit,      \* the edits under way
  cache,     \* _cache: number -> [age, match]
  lookup,    \* the lookups under way
  recent,    \* auxiliary: the answers the book gave, by number and age
  crossed,   \* auxiliary: two edits of primaries overlapped
  misled     \* auxiliary: two priority changes overlapped

book == <<contact, entry, recent>>
cvars == <<book, priority, trail, edit, cache, lookup, crossed, misled>>

Quiet == [op |-> "none"]
Unknown == [who |-> "unknown"]
Contact == -1..MaxName
ContactNumber == [Entries -> {"no", "plain", "primary"}]
ContactPriority == Levels \cup {"none"}
Live(p) == contact[p] > 0

-----------------------------------------------------------------------------
(* normalize_number *)

Cut(d, n) == SubSeq(d, n + 1, Len(d))
Valid(d) == IF Len(d) >= MinDigits /\ Len(d) <= 15 /\ d[1] # 0 THEN d ELSE <<>>

\* The digits of the E.164 number, or the empty sequence: an extension, or a
\* block without a prefix, for which no country code is guessed.
NormalizeNumber(raw) ==
  LET d == raw.digits IN
  CASE raw.plus                           -> Valid(d)
    [] ~raw.plus /\ IsPrefix(<<0, 0>>, d) -> Valid(Cut(d, 2))
    [] ~raw.plus /\ IsPrefix(<<0>>, d) /\ ~IsPrefix(<<0, 0>>, d)
                                          -> Valid(Country \o Cut(d, 1))
    [] OTHER                              -> <<>>
Extension(raw) == ~raw.plus /\ raw.digits # <<>> /\ raw.digits[1] # 0
                  /\ Len(raw.digits) <= MaxExtensionLen

Numbers == {NormalizeNumber(r) : r \in Dialled} \ {<<>>}

-----------------------------------------------------------------------------
(* ContactMatcher *)

\* _score: exact, stored number plus a short extension, or one a suffix of the
\* other.
Score(q, s) ==
  CASE q = s -> Len(s)
    [] q # s /\ IsPrefix(s, q) /\ Len(q) - Len(s) <= MaxExtensionDigits
         /\ Len(s) >= MinMatchDigits -> Len(s)
    [] q # s /\ IsSuffix(s, q) /\ Len(s) >= MinMatchDigits -> Len(s)
    [] q # s /\ IsSuffix(q, s) /\ Len(q) >= MinMatchDigits -> Len(q)
    [] OTHER -> 0

\* _match: the best scores over the numbers of live contacts; a tie between two
\* contacts is ambiguous.
Match(q, con, ent) ==
  LET hits == {x \in Entries : ent[x] # "no" /\ con[x[1]] > 0 /\ Score(q, x[2]) > 0}
      best == {x \in hits : \A y \in hits : Score(q, y[2]) <= Score(q, x[2])}
      who  == {x[1] : x \in best}
  IN CASE who = {} -> Unknown
       [] Cardinality(who) = 1 -> [who |-> "contact",
                                   id |-> CHOOSE p \in who : TRUE,
                                   name |-> con[CHOOSE p \in who : TRUE]]
       [] OTHER -> [who |-> "ambiguous"]

ContactsInit ==
  /\ contact = [p \in Persons |-> 0] /\ entry = [x \in Entries |-> "no"]
  /\ priority = "none" /\ trail = <<>>
  /\ edit = [k \in Editors |-> Quiet]
  /\ cache = [n \in Numbers |-> [age |-> CacheTtl]]
  /\ lookup = [c \in Callers |-> Quiet]
  /\ recent = [n \in Numbers |-> [a \in 0..CacheTtl |-> {Unknown}]]
  /\ crossed = FALSE /\ misled = FALSE

\* The book after a change, and what it now says of every number.
Book(con, ent) ==
  /\ contact' = con /\ entry' = ent
  /\ recent' = [n \in Numbers |->
                 [recent[n] EXCEPT ![0] = @ \cup {Match(n, con, ent)}]]

\* resolve: an extension or an unusable number asks nobody; a cache entry that
\* has not expired answers; otherwise the book is read ...
Resolve(c, raw) ==
  LET n == NormalizeNumber(raw) IN
  /\ lookup[c] = Quiet /\ n # <<>> /\ cache[n].age >= CacheTtl
  /\ lookup' = [lookup EXCEPT ![c] =
       [op |-> "read", n |-> n, match |-> Match(n, contact, entry)]]
  /\ UNCHANGED <<book, priority, trail, edit, cache, crossed, misled>>

\* ... and only an answer other than "no match" is kept.
Remember(c) ==
  LET l == lookup[c] IN
  /\ l.op = "read"
  /\ lookup' = [lookup EXCEPT ![c] = Quiet]
  /\ cache' = IF l.match = Unknown THEN cache
              ELSE [cache EXCEPT ![l.n] = [age |-> 0, match |-> l.match]]
  /\ UNCHANGED <<book, priority, trail, edit, crossed, misled>>

\* Time passes; an entry that reaches the TTL is not used any more.  A lookup
\* takes less than a tick.
Tick ==
  /\ \A c \in Callers : lookup[c] = Quiet
  /\ \E n \in Numbers : cache[n].age < CacheTtl
  /\ cache' = [n \in Numbers |-> IF cache[n].age + 1 >= CacheTtl
                                 THEN [age |-> CacheTtl]
                                 ELSE [cache[n] EXCEPT !.age = @ + 1]]
  /\ recent' = [n \in Numbers |-> [a \in 0..CacheTtl |->
       IF a = 0 THEN {Match(n, contact, entry)} ELSE recent[n][a - 1]]]
  /\ UNCHANGED <<contact, entry, priority, trail, edit, lookup, crossed, misled>>

-----------------------------------------------------------------------------
(* Contacts and numbers.  *)

\* create_contact: the contact and its numbers in one transaction.
CreateContact(p, xs) ==
  /\ contact[p] = 0 /\ \A x \in xs : x[1] = p
  /\ Book([contact EXCEPT ![p] = 1],
          [x \in Entries |-> IF x \in xs THEN "plain" ELSE entry[x]])
  /\ UNCHANGED <<priority, trail, edit, cache, lookup, crossed, misled>>

UpdateContact(p) ==
  /\ Live(p) /\ contact[p] < MaxName
  /\ Book([contact EXCEPT ![p] = @ + 1], entry)
  /\ UNCHANGED <<priority, trail, edit, cache, lookup, crossed, misled>>

\* soft_delete: the numbers and the priority stay.
DeleteContact(p) ==
  /\ Live(p)
  /\ Book([contact EXCEPT ![p] = -1], entry)
  /\ UNCHANGED <<priority, trail, edit, cache, lookup, crossed, misled>>

\* get_number does not ask whether the contact is still there.
RemoveNumber(x) ==
  /\ entry[x] # "no"
  /\ Book(contact, [entry EXCEPT ![x] = "no"])
  /\ UNCHANGED <<priority, trail, edit, cache, lookup, crossed, misled>>

\* The other primaries the transaction sees, to be demoted.
DemoteOtherPrimaries(x, primary) ==
  IF primary THEN {y \in Entries \ {x} : y[1] = x[1] /\ entry[y] = "primary"}
             ELSE {}

Begin(k, op, x, primary) ==
  /\ edit[k] = Quiet
  /\ edit' = [edit EXCEPT ![k] =
       [op |-> op, x |-> x, old |-> FALSE, primary |-> primary,
        demote |-> DemoteOtherPrimaries(x, primary)]]
  /\ UNCHANGED <<book, priority, trail, cache, lookup, crossed, misled>>

\* The handlers of POST and PATCH find the contact, or the number, flush the row
\* and load the primaries to demote ...
AddNumber(k, x, primary) ==
  Live(x[1]) /\ entry[x] = "no" /\ Begin(k, "add", x, primary)
UpdateNumber(k, x, primary) == entry[x] # "no" /\ Begin(k, "update", x, primary)

\* ... and commit.  A number added twice violates the unique constraint, a row
\* that is gone makes its UPDATE match nothing: either fails the request.
CommitNumber(k) ==
  LET e == edit[k] IN
  /\ e.op \in {"add", "update"} /\ (entry[e.x] = "no") = (e.op = "add")
  /\ \A y \in e.demote : entry[y] # "no"
  /\ Book(contact, [y \in Entries |->
       IF y = e.x THEN (IF e.primary THEN "primary" ELSE "plain")
       ELSE IF y \in e.demote THEN "plain" ELSE entry[y]])
  /\ edit' = [j \in Editors |->
       IF j = k THEN Quiet
       ELSE IF edit[j].op \in {"add", "update"} THEN [edit[j] EXCEPT !.old = TRUE]
       ELSE edit[j]]
  /\ crossed' = (crossed \/ e.old)
  /\ UNCHANGED <<priority, trail, cache, lookup, misled>>

\* (The level the row already has is written and reported again.)  mutant
SetPriorityAlways(k, level) ==
  /\ edit[k] = Quiet /\ Len(trail) < MaxTrail
  /\ edit' = [edit EXCEPT ![k] = [op |-> "priority", from |-> priority, to |-> level]]
  /\ UNCHANGED <<book, priority, trail, cache, lookup, crossed, misled>>

\* set_priority loads the row; the same level is a no-op.
SetPriority(k, level) ==
  /\ edit[k] = Quiet /\ level # priority /\ Len(trail) < MaxTrail
  /\ edit' = [edit EXCEPT ![k] = [op |-> "priority", from |-> priority, to |-> level]]
  /\ UNCHANGED <<book, priority, trail, cache, lookup, crossed, misled>>

\* The row is written before the event is appended and stays locked until the
\* commit, so that rows and events of two requests come in the same order.  Two
\* first priorities at once: the second insert fails.
CommitPriority(k) ==
  LET e == edit[k] IN
  /\ e.op = "priority" /\ Len(trail) < MaxTrail
  /\ e.from = "none" => priority = "none"
  /\ priority' = e.to
  /\ trail' = Append(trail, [from |-> e.from, to |-> e.to])
  /\ misled' = (misled \/ e.from # priority)
  /\ edit' = [edit EXCEPT ![k] = Quiet]
  /\ UNCHANGED <<book, cache, lookup, crossed>>

Fail(k) ==
  /\ edit[k] # Quiet /\ edit' = [edit EXCEPT ![k] = Quiet]
  /\ UNCHANGED <<book, priority, trail, cache, lookup, crossed, misled>>

\* Without Editors only whole requests change the book; without Callers nobody
\* calls: the two halves of the component can be examined apart.
ContactsNext ==
  \/ Tick
  \/ \E p \in Persons :
       \/ UpdateContact(p) \/ DeleteContact(p)
       \/ \E xs \in SUBSET {x \in Entries : x[1] = p} : CreateContact(p, xs)
  \/ \E x \in Entries : RemoveNumber(x)
  \/ \E c \in Callers : (\E r \in Dialled : Resolve(c, r)) \/ Remember(c)
  \/ \E k \in Editors :
       \/ \E x \in Entries, b \in BOOLEAN : AddNumber(k, x, b) \/ UpdateNumber(k, x, b)
       \/ \E l \in Levels : SetPriority(k, l)
       \/ CommitNumber(k) \/ CommitPriority(k) \/ Fail(k)

-----------------------------------------------------------------------------
ContactsTypeOK ==
  /\ contact \in [Persons -> Contact] /\ entry \in ContactNumber
  /\ priority \in ContactPriority

\* A contact has at most one primary number unless two requests overlapped (the
\* demotion reads before it writes, with no constraint behind it); the events
\* of the priority end in the stored one, and unless two changes overlapped
\* each starts where the one before ended and changes something.
BookIsConsistent ==
  /\ ~crossed => \A x, y \in Entries :
       (x[1] = y[1] /\ entry[x] = "primary" /\ entry[y] = "primary") => x = y
  /\ priority = IF trail = <<>> THEN "none" ELSE Last(trail).to
  /\ ~misled => \A i \in 1..Len(trail) :
       /\ trail[i].from # trail[i].to
       /\ i > 1 => trail[i].from = trail[i-1].to

\* The three spellings of a number (+cc, 00cc and the national 0) ask for the
\* same entry, and an extension for none.
SpellingsAgree ==
  \A r, s \in Dialled :
    /\ (r.plus /\ ~s.plus /\ s.digits = <<0, 0>> \o r.digits)
         => NormalizeNumber(s) = NormalizeNumber(r)
    /\ (r.plus /\ ~s.plus /\ r.digits = Country \o Cut(s.digits, 1)
          /\ IsPrefix(<<0>>, s.digits))
         => NormalizeNumber(s) = NormalizeNumber(r)
    /\ Extension(r) => NormalizeNumber(r) = <<>>

\* What the cache may still answer is an answer the book gave not longer ago
\* than the time to live and never "no match", so that a contact added during
\* a call is found; however a number is spelt, one entry answers for it.
CallerIsRecent ==
  /\ SpellingsAgree
  /\ \A n \in Numbers : cache[n].age < CacheTtl =>
       /\ cache[n].match # Unknown
       /\ \E a \in 0..cache[n].age : cache[n].match \in recent[n][a]
=============================================================================
