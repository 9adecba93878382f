------------------------------ MODULE LineMusic -----------------------------
(* Music-on-hold files and the SIP lines that play them (sip_moh_config.py,  *)
(* sip_config.py). The bytes are on disk, the row in the database, and the   *)
(* sync script copies what the lines refer to onto the Asterisk box in       *)
(* several requests. A request may die between any two of its steps. A line  *)
(* has a ring and a hold music; they are alike and one is kept.              *)
EXTENDS Naturals, FiniteSets

CONSTANTS
  Files,      \* ids of uploads, each used once
  SipLines,   \* BBZ line ids
  Clerks      \* requests, and the sync script as one client

VARIABLES
  file,       \* file[f]: the row: "none", "stored" or "deleted"
  disk,       \* the files whose bytes are in the store
  line,       \* line[l]: the music of the line's row, or Absent
  clerk,      \* clerk[c]: the request under way
  box,        \* the Asterisk box: the classes it has loaded, the bytes it has
  torn        \* auxiliary: files a line let go of between the two reads of a sync

musicVars == <<file, disk, line, clerk, box, torn>>

NoMusic == "no music"
Absent == "absent"
Resting == [op |-> "idle"]
SipMohFile == {"none", "stored", "deleted"}
SipLine == Files \cup {NoMusic, Absent}
Stored == {f \in Files : file[f] = "stored"}

MusicTypeOK ==
  /\ file \in [Files -> SipMohFile]
  /\ disk \subseteq Files
  /\ line \in [SipLines -> SipLine]
  /\ box \in [classes : SUBSET Files, bytes : SUBSET Files]
  /\ torn \subseteq Files

MusicInit ==
  /\ file = [f \in Files |-> "none"]
  /\ disk = {}
  /\ line = [l \in SipLines |-> Absent]
  /\ clerk = [c \in Clerks |-> Resting]
  /\ box = [classes |-> {}, bytes |-> {}]
  /\ torn = {}

Go(c, r) == clerk' = [clerk EXCEPT ![c] = r]
Doing(c, op) == clerk[c].op = op
Claimed == {clerk[c].f : c \in {d \in Clerks : clerk[d].op \in {"write", "insert"}}}

(* _referenced_ids: the files some line plays.                               *)
ReferencedIds(rows) == {f \in Files : \E l \in SipLines : rows[l] = f}

(* The lines become rows.                                                    *)
Assign(rows) ==
  /\ line' = rows
  /\ torn' = IF \E c \in Clerks : Doing(c, "configured")
             THEN torn \cup (ReferencedIds(line) \ ReferencedIds(rows)) ELSE torn

-----------------------------------------------------------------------------
(* POST /moh: upload flushes the row ...                                     *)
UploadUnwritten(c, f) ==                                          \* mutant
  /\ Doing(c, "idle") /\ file[f] = "none" /\ f \notin disk \cup Claimed
  /\ Go(c, [op |-> "insert", f |-> f])
  /\ UNCHANGED <<file, disk, line, box, torn>>

UploadMohFile(c, f) ==
  /\ Doing(c, "idle") /\ file[f] = "none" /\ f \notin disk \cup Claimed
  /\ Go(c, [op |-> "write", f |-> f])
  /\ UNCHANGED <<file, disk, line, box, torn>>

(* ... moh_store.write puts the bytes in place by a rename ...               *)
StoreWrite(c) ==
  /\ Doing(c, "write")
  /\ disk' = disk \cup {clerk[c].f}
  /\ Go(c, [op |-> "insert", f |-> clerk[c].f])
  /\ UNCHANGED <<file, line, box, torn>>

(* ... and the row is committed.                                             *)
Upload(c) ==
  /\ Doing(c, "insert")
  /\ file' = [file EXCEPT ![clerk[c].f] = "stored"]
  /\ Go(c, Resting)
  /\ UNCHANGED <<disk, line, box, torn>>

(* DELETE /moh/{id}: delete_file refuses while a line refers to the file.    *)
DeleteMohFile(c, f) ==
  /\ Doing(c, "idle") /\ f \in Stored
  /\ \A l \in SipLines : line[l] # f
  /\ Go(c, [op |-> "delete", f |-> f])
  /\ UNCHANGED <<file, disk, line, box, torn>>

(* The DELETE: ON DELETE SET NULL clears the lines that refer to it by now.  *)
DeleteFile(c) ==
  LET f == clerk[c].f IN
  /\ Doing(c, "delete")
  /\ file' = [file EXCEPT ![f] = "deleted"]
  /\ Assign([l \in SipLines |-> IF line[l] = f THEN NoMusic ELSE line[l]])
  /\ Go(c, [op |-> "unlink", f |-> f])
  /\ UNCHANGED <<disk, box>>

(* moh_store.delete, after the commit.                                       *)
StoreDelete(c) ==
  /\ Doing(c, "unlink")
  /\ disk' = disk \ {clerk[c].f}
  /\ Go(c, Resting)
  /\ UNCHANGED <<file, line, box, torn>>

-----------------------------------------------------------------------------
(* _moh_id: no music, or a file that exists.                                 *)
MohId(f) == f = NoMusic \/ f \in Stored

(* PUT /lines/{id}: the file is looked up, in a transaction that is then     *)
(* rolled back ...                                                           *)
PutSipLine(c, l, f) ==
  /\ Doing(c, "idle") /\ MohId(f)
  /\ Go(c, [op |-> "line", l |-> l, f |-> f])
  /\ UNCHANGED <<file, disk, line, box, torn>>

(* ... and set_line writes the line: the foreign key is what counts.         *)
SetLine(c) ==
  LET q == clerk[c] IN
  /\ Doing(c, "line")
  /\ q.f = NoMusic \/ q.f \in Stored
  /\ Assign([line EXCEPT ![q.l] = q.f])
  /\ Go(c, Resting)
  /\ UNCHANGED <<file, disk, box>>

(* delete_line                                                               *)
DeleteLine(l) ==
  /\ line[l] # Absent
  /\ Assign([line EXCEPT ![l] = Absent])
  /\ UNCHANGED <<file, disk, clerk, box>>

(* The request dies: its transaction is gone, what is on disk stays.         *)
Die(c) == ~Doing(c, "idle") /\ Go(c, Resting) /\ UNCHANGED <<file, disk, line, box, torn>>

-----------------------------------------------------------------------------
(* The sync script: the classes of render_musiconhold, then the manifest and *)
(* a download of every file of it, then the reload of the box.               *)
RenderMusiconhold(c) ==
  /\ Doing(c, "idle")
  /\ Go(c, [op |-> "configured", classes |-> ReferencedIds(line)])
  /\ UNCHANGED <<file, disk, line, box, torn>>

SyncManifest(c) ==
  /\ Doing(c, "configured")
  /\ Go(c, [op |-> "sync", classes |-> clerk[c].classes, todo |-> ReferencedIds(line)])
  /\ UNCHANGED <<file, disk, line, box, torn>>

(* read_bytes: the row first, then the file.                                 *)
ReadBytes(f) == f \in Stored /\ f \in disk

DownloadMohFile(c, f) ==
  /\ Doing(c, "sync") /\ f \in clerk[c].todo
  /\ ReadBytes(f)
  /\ box' = [box EXCEPT !.bytes = @ \cup {f}]
  /\ Go(c, [clerk[c] EXCEPT !.todo = @ \ {f}])
  /\ UNCHANGED <<file, disk, line, torn>>

Reload(c) ==
  /\ Doing(c, "sync") /\ clerk[c].todo = {}
  /\ box' = [box EXCEPT !.classes = clerk[c].classes]
  /\ Go(c, Resting)
  /\ UNCHANGED <<file, disk, line, torn>>

MusicNext ==
  \/ \E c \in Clerks :
       \/ \E f \in Files : UploadMohFile(c, f) \/ DeleteMohFile(c, f) \/ DownloadMohFile(c, f)
       \/ \E l \in SipLines, f \in Files \cup {NoMusic} : PutSipLine(c, l, f)
       \/ StoreWrite(c) \/ Upload(c) \/ DeleteFile(c) \/ StoreDelete(c) \/ SetLine(c)
       \/ RenderMusiconhold(c) \/ SyncManifest(c) \/ Reload(c) \/ Die(c)
  \/ \E l \in SipLines : DeleteLine(l)

MusicSpec == MusicInit /\ [][MusicNext]_musicVars

-----------------------------------------------------------------------------
(* upload writes the bytes before it commits and delete_file removes them    *)
(* after: whatever dies in between, a file in the list, and a file a line    *)
(* plays, has its bytes; and so has a class the box has loaded, unless the   *)
(* last line let go of the file while the script was between its requests.   *)
MusicHasBytes ==
  /\ Stored \subseteq disk /\ ReferencedIds(line) \subseteq Stored
  /\ box.classes \subseteq box.bytes \cup torn
=============================================================================
