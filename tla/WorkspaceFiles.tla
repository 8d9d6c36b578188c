--------------------------- MODULE WorkspaceFiles ---------------------------
(***************************************************************************)
(* The rows of one file name in a conversation's workspace, their archived *)
(* versions and the object that holds the text when the backend offloads   *)
(* it: written by the agent, edited, restored, uploaded and deleted.       *)
(***************************************************************************)
EXTENDS Naturals, FiniteSets

CONSTANTS
  Backend,        \* storage backends to choose from, a subset of {"db", "minio"}
  Kept,           \* archived versions to keep (10 in the code)
  MaxFileRequests \* bound: requests

FileRequest == 1..MaxFileRequests
Offloaded   == MaxFileRequests + 1  \* content is NULL, storage_key is set
Empty       == 0

ASSUME FileConstants ==
  Backend \subseteq {"db", "minio"} /\ Kept \in Nat \ {0} /\ MaxFileRequests \in Nat

VARIABLES
  file,  \* backend; rows: id (creating request) -> [content (the request that wrote it), key,
         \* version]; object: the text stored under the name; vers: set of archived
         \* [of (row), num, content, by]
  freq,  \* [FileRequest -> what its handler has loaded]
  fhist  \* history: was (texts that were committed), pruned (texts dropped with old versions or
         \* with their row), overlap (a row was written that had changed since it was loaded)

fileVars == <<file, freq, fhist>>

RowIds  == DOMAIN file.rows
Text(r) == IF file.rows[r].content = Offloaded THEN file.object ELSE file.rows[r].content
In(i, op) == freq[i].op = op
Served    == [op |-> "done"]

Takes(i, q) ==
  /\ freq[i].op = "fresh" /\ \A j \in 1..(i - 1) : freq[j].op # "fresh"
  /\ freq' = [freq EXCEPT ![i] = q]
  /\ UNCHANGED <<file, fhist>>

Then(i, q) == freq' = [freq EXCEPT ![i] = q]

(* What a change of row r has loaded: the row, its text, the versions to    *)
(* drop.                                                                    *)
OldestBut(r, n) ==
  {v \in file.vers : v.of = r /\ Cardinality({w \in file.vers : w.of = r /\ w.num > v.num}) >= n}

Change(r, text, inline) ==
  [op |-> "change", of |-> r, text |-> text, inline |-> inline, row |-> file.rows[r],
   old |-> Text(r)]

-----------------------------------------------------------------------------
(* storage.save_file, called for a write of the agent.                      *)

(* An empty text never replaces a file.                                     *)
BeginSave(i) ==
  \E text \in {Empty, i} :
    Takes(i, IF text = Empty /\ RowIds # {} THEN Served
             ELSE [op |-> IF file.backend = "minio" THEN "put" ELSE "look_up", text |-> text])

PutObject(i) ==
  /\ In(i, "put") /\ Then(i, [freq[i] EXCEPT !.op = "look_up"])
  /\ file' = [file EXCEPT !.object = freq[i].text]
  /\ UNCHANGED fhist

(* Several rows of the name raise MultipleResultsFound.                     *)
LookUp(i) ==
  /\ In(i, "look_up")
  /\ IF RowIds = {} THEN Then(i, [freq[i] EXCEPT !.op = "insert"])
     ELSE IF Cardinality(RowIds) > 1 THEN Then(i, Served)
     ELSE \E r \in RowIds : Then(i, Change(r, freq[i].text, file.backend = "db"))
  /\ UNCHANGED <<file, fhist>>

Inserts(i, text, inline) ==
  file' = [file EXCEPT !.rows = [x \in RowIds \cup {i} |->
    IF x # i THEN @[x]
    ELSE [content |-> IF inline THEN text ELSE Offloaded, key |-> ~inline, version |-> 1]]]

InsertFile(i) ==
  /\ In(i, "insert") /\ Then(i, [op |-> "done", text |-> freq[i].text])
  /\ Inserts(i, freq[i].text, file.backend = "db")
  /\ fhist' = [fhist EXCEPT !.was = @ \cup {freq[i].text}]

(* The upload of a conversation is always inline and looks for no row.      *)
Upload(i) ==
  /\ freq[i].op = "fresh" /\ \A j \in 1..(i - 1) : freq[j].op # "fresh"
  /\ Then(i, [op |-> "done", text |-> i])
  /\ Inserts(i, i, TRUE)
  /\ fhist' = [fhist EXCEPT !.was = @ \cup {i}]

-----------------------------------------------------------------------------
(* update_file_content: the user's edit, or the text of an archived version. *)
BeginPatch(i) == \E r \in RowIds, text \in {Empty, i} : Takes(i, Change(r, text, TRUE))

(* No such version leaves the file alone, two of the same number raise.     *)
BeginRestore(i) ==
  \E r \in RowIds, n \in {v.num : v \in file.vers} :
    LET found == {v \in file.vers : v.of = r /\ v.num = n} IN
    Takes(i, IF Cardinality(found) # 1 THEN Served
             ELSE Change(r, (CHOOSE v \in found : TRUE).content, TRUE))

(* The commit of a change; the archived text is the one loaded.             *)
Writes(i, old) ==
  LET q    == freq[i]
      new  == IF old = Empty THEN {}
              ELSE {[of |-> q.of, num |-> q.row.version, content |-> old, by |-> i]}
      dead == IF old = Empty /\ ~q.inline THEN {} ELSE OldestBut(q.of, Kept - 1) IN
  /\ In(i, "change") /\ q.of \in RowIds
  /\ Then(i, Served)
  /\ file' = [file EXCEPT
       !.vers = (@ \ dead) \cup new,
       !.rows[q.of] = [content |-> IF q.inline THEN q.text ELSE Offloaded,
                       key |-> @.key \/ ~q.inline, version |-> q.row.version + 1]]
  /\ fhist' = [fhist EXCEPT !.was = @ \cup {q.text},
                            !.pruned = @ \cup {v.content : v \in dead},
                            !.overlap = @ \/ file.rows[q.of] # q.row]

WriteArchivesNew(i) == Writes(i, freq[i].text)
WriteFile(i)        == Writes(i, freq[i].old)

WriteGone(i) ==
  /\ In(i, "change") /\ freq[i].of \notin RowIds
  /\ Then(i, Served) /\ UNCHANGED <<file, fhist>>

-----------------------------------------------------------------------------
(* delete_standalone_file: the object first, then the row and its versions. *)
BeginDeleteFile(i) == \E r \in RowIds : Takes(i, [op |-> "unlink", of |-> r, key |-> file.rows[r].key])

DeleteObject(i) ==
  /\ In(i, "unlink") /\ Then(i, [freq[i] EXCEPT !.op = "delete"])
  /\ file' = [file EXCEPT !.object = IF freq[i].key THEN Empty ELSE @]
  /\ fhist' = [fhist EXCEPT !.pruned = IF freq[i].key THEN @ \cup {file.object} ELSE @]

DeleteFile(i) ==
  LET r == freq[i].of IN
  /\ In(i, "delete") /\ Then(i, Served)
  /\ file' = [file EXCEPT !.rows = [x \in DOMAIN @ \ {r} |-> @[x]],
                          !.vers = {v \in @ : v.of # r}]
  /\ fhist' = [fhist EXCEPT !.pruned = @ \cup {v.content : v \in {w \in file.vers : w.of = r}}
                                         \cup (IF r \in RowIds THEN {Text(r)} ELSE {})]

-----------------------------------------------------------------------------
FileInit ==
  /\ \E b \in Backend : file = [backend |-> b, rows |-> <<>>, object |-> Empty, vers |-> {}]
  /\ freq = [i \in FileRequest |-> [op |-> "fresh"]]
  /\ fhist = [was |-> {}, pruned |-> {}, overlap |-> FALSE]

FileNext ==
  \E i \in FileRequest :
    \/ BeginSave(i) \/ PutObject(i) \/ LookUp(i) \/ InsertFile(i) \/ Upload(i)
    \/ BeginPatch(i) \/ BeginRestore(i) \/ WriteFile(i) \/ WriteGone(i)
    \/ BeginDeleteFile(i) \/ DeleteObject(i) \/ DeleteFile(i)

FileSpec == FileInit /\ [][FileNext]_fileVars

-----------------------------------------------------------------------------
Archived == {v.content : v \in file.vers}
Texts    == {Text(r) : r \in RowIds}
OldTextsKept ==
  fhist.was \ {Empty} \subseteq Texts \cup Archived \cup fhist.pruned

(* Two archived versions of a file share a number, which makes that version *)
(* impossible to restore, only if two changes had loaded the same row.      *)
VersionsDistinct ==
  \A v, w \in file.vers : v.of = w.of /\ v.num = w.num /\ v # w => fhist.overlap

(* conversation_service.py: "Keep only the latest 10 versions", with the one *)
(* the same change archives.                                                *)
VersionsBounded ==
  fhist.overlap \/ \A r \in RowIds : Cardinality({v \in file.vers : v.of = r}) <= Kept

(* In the database backend every text that was once in the file can be read *)
(* back, until its version is dropped or the file deleted, unless two       *)
(* changes overlapped.                                                      *)
HistoryKept == file.backend = "db" /\ ~fhist.overlap => OldTextsKept

(* A file's history: numbered, bounded, complete.                           *)
FileHistory == VersionsDistinct /\ VersionsBounded /\ HistoryKept
=============================================================================
