---------------------------- MODULE FileBrowser ----------------------------
(***************************************************************************)
(* The file browser: a user's standalone files and folders, kept in a      *)
(* hidden conversation made on the first upload, and the agents' files     *)
(* beside them.  A folder is a row, or shown because a file's path goes    *)
(* through it.                                                             *)
(***************************************************************************)
EXTENDS Naturals, Sequences

CONSTANTS
  Segment,          \* names of folders, as strings
  Rest,             \* <<"ab", "a">> :> "b": what is left of a name after a shorter one
  FolderPath,       \* the folder paths a client asks for: sequences of segments
  MaxBrowseRequests \* bound: requests

BrowseRequest == 1..MaxBrowseRequests
AgentSpace    == 0

ASSUME BrowserConstants ==
  /\ FolderPath \subseteq Seq(Segment) /\ MaxBrowseRequests \in Nat
  /\ DOMAIN Rest \subseteq Segment \X Segment /\ \A p \in DOMAIN Rest : Rest[p] \in Segment

VARIABLES
  drive,  \* spaces: the __file_storage__ conversations (numbers of the creating requests);
          \* entry: id -> [space (AgentSpace: of a chat), folder, dir (a folder row), name]
  breq,   \* [BrowseRequest -> what its handler has loaded]
  bhist   \* history: overlap (two first uploads, or two creations of a folder)

browseVars == <<drive, breq, bhist>>

Entries    == DOMAIN drive.entry
Inside(s)      == {x \in Entries : drive.entry[x].space = s}
FoldersIn(s, f) == {x \in Inside(s) : drive.entry[x].dir /\ drive.entry[x].folder = f}

(* folder_path.startswith(folder), of strings: a sibling may match.         *)
StartsWith(path, folder) ==
  LET n == Len(folder) IN
  \/ n = 0 /\ path # <<>>
  \/ /\ n > 0 /\ Len(path) >= n /\ path # folder
     /\ SubSeq(path, 1, n - 1) = SubSeq(folder, 1, n - 1)
     /\ path[n] = folder[n] \/ <<path[n], folder[n]>> \in DOMAIN Rest

(* The subfolder of folder through which path is shown.                     *)
ShownThrough(path, folder) ==
  LET n    == Len(folder)
      rest == SubSeq(path, n + 1, Len(path))
      left == IF n = 0 \/ path[n] = folder[n] THEN rest ELSE <<Rest[<<path[n], folder[n]>>]>> \o rest
  IN IF Len(left) > 1 THEN Append(folder, Head(left)) ELSE path

DirectOnly(path, folder) == StartsWith(path, folder) /\ Len(path) = Len(folder) + 1

(* list_standalone_files: the subfolders shown in a folder, real ones and   *)
(* those of the paths below it.  Nothing but agents' files without a space. *)
SubfoldersBy(s, folder, deeper) ==
  {Append(folder, drive.entry[x].name) : x \in FoldersIn(s, folder)} \cup {ShownThrough(p, folder) : p \in deeper}

Paths(s) == {drive.entry[x].folder : x \in Inside(s)}

SubfoldersDirect(s, folder) == SubfoldersBy(s, folder, {p \in Paths(s) : DirectOnly(p, folder)})
Subfolders(s, folder)       == SubfoldersBy(s, folder, {p \in Paths(s) : StartsWith(p, folder)})

(* list_all_folders: the targets a move offers.                             *)
Targets(s) ==
  {<<>>} \cup Paths(s)
         \cup {Append(drive.entry[x].folder, drive.entry[x].name) : x \in {y \in Inside(s) : drive.entry[y].dir}}

-----------------------------------------------------------------------------
Asks(i, q) ==
  /\ breq[i].op = "fresh" /\ \A j \in 1..(i - 1) : breq[j].op # "fresh"
  /\ breq' = [breq EXCEPT ![i] = q]
  /\ UNCHANGED drive

Answered == [op |-> "done"]
Replies(i) == breq' = [breq EXCEPT ![i] = Answered]

(* The lookups take any of the spaces (first() without an order).           *)
BeginUploadStandalone(i) ==
  /\ \E f \in FolderPath, s \in IF drive.spaces = {} THEN {i} ELSE drive.spaces :
       Asks(i, [op |-> "upload", space |-> s, folder |-> f])
  /\ bhist' = IF drive.spaces # {} THEN bhist ELSE [bhist EXCEPT
       !.overlap = @ \/ \E j \in BrowseRequest : breq[j].op = "upload" /\ breq[j].space = j]

(* The first folder of a user without a space raises: the conversation is   *)
(* built with a column it does not have.                                    *)
BeginCreateFolder(i) ==
  \E f \in FolderPath, n \in Segment :
    IF drive.spaces = {} THEN Asks(i, Answered) /\ UNCHANGED bhist
    ELSE \E s \in drive.spaces :
      /\ Asks(i, IF \E x \in FoldersIn(s, f) : drive.entry[x].name = n THEN Answered
                 ELSE [op |-> "folder", space |-> s, folder |-> f, name |-> n])
      /\ bhist' = [bhist EXCEPT !.overlap = @ \/ \E j \in BrowseRequest :
           breq[j].op = "folder" /\ breq[j] = breq'[i]]

(* Nothing is written into a space that was deleted.                        *)
Adds(i, op, dir, name) ==
  LET q == breq[i] IN
  /\ q.op = op /\ Replies(i) /\ UNCHANGED bhist
  /\ drive' = IF q.space # i /\ q.space \notin drive.spaces THEN drive ELSE
       [spaces |-> drive.spaces \cup {q.space},
        entry  |-> [x \in Entries \cup {i} |->
          IF x # i THEN drive.entry[x]
          ELSE [space |-> q.space, folder |-> q.folder, dir |-> dir, name |-> name]]]

UploadStandalone(i) == Adds(i, "upload", FALSE, "file")
CreateFolder(i)     == Adds(i, "folder", TRUE, breq[i].name)

(* Moving takes any file of the user to any of the listed folders.          *)
BeginMoveFile(i) ==
  \E x \in Entries, s \in drive.spaces :
    /\ ~drive.entry[x].dir
    /\ \E f \in Targets(s) : Asks(i, [op |-> "move", of |-> x, folder |-> f])
    /\ UNCHANGED bhist

MoveFile(i) ==
  LET q == breq[i] IN
  /\ q.op = "move" /\ Replies(i)
  /\ drive' = IF q.of \in Entries THEN [drive EXCEPT !.entry[q.of].folder = q.folder] ELSE drive
  /\ UNCHANGED bhist

BeginDeleteEntry(i) == \E x \in Entries : Asks(i, [op |-> "delete", gone |-> {x}]) /\ UNCHANGED bhist

DeleteEntry(i) ==
  /\ breq[i].op = "delete" /\ Replies(i) /\ UNCHANGED bhist
  /\ drive' = [drive EXCEPT !.entry = [x \in Entries \ breq[i].gone |-> @[x]]]

(* The hidden conversation can be deleted like any other.                   *)
DeleteSpace ==
  /\ \E s \in drive.spaces :
       drive' = [spaces |-> drive.spaces \ {s}, entry |-> [x \in Entries \ Inside(s) |-> drive.entry[x]]]
  /\ UNCHANGED <<breq, bhist>>

-----------------------------------------------------------------------------
(* An agent has written a file in the root folder.                          *)
BrowseInit ==
  /\ drive = [spaces |-> {},
              entry |-> [x \in {MaxBrowseRequests + 1} |->
                [space |-> AgentSpace, folder |-> <<>>, dir |-> FALSE, name |-> "file"]]]
  /\ breq = [i \in BrowseRequest |-> [op |-> "fresh"]]
  /\ bhist = [overlap |-> FALSE]

BrowseNext ==
  \/ \E i \in BrowseRequest :
       \/ BeginUploadStandalone(i) \/ UploadStandalone(i) \/ BeginCreateFolder(i) \/ CreateFolder(i)
       \/ BeginMoveFile(i) \/ MoveFile(i) \/ BeginDeleteEntry(i) \/ DeleteEntry(i)
  \/ DeleteSpace

BrowseSpec == BrowseInit /\ [][BrowseNext]_browseVars

-----------------------------------------------------------------------------
(* Whichever space a listing picks, it holds all standalone files, and its  *)
(* folders have distinct names, unless two first uploads or two creations   *)
(* of the folder overlapped.                                                *)
OneSpace ==
  \/ bhist.overlap
  \/ /\ \A s, t \in drive.spaces : s = t
     /\ \A x, y \in Entries :
          drive.entry[x].dir /\ drive.entry[y].dir /\ x # y =>
            <<drive.entry[x].folder, drive.entry[x].name>> # <<drive.entry[y].folder, drive.entry[y].name>>

(* Every standalone file is reached by clicking through from the root: each *)
(* folder on its way shows the next, also when the rows of the folders above *)
(* it were deleted.                                                         *)
FilesReached ==
  \A s \in drive.spaces : \A p \in Paths(s) : \A k \in 0..(Len(p) - 1) :
    SubSeq(p, 1, k + 1) \in Subfolders(s, SubSeq(p, 1, k))

(* A user's files are in one space, and all of them are reached.            *)
DriveReached == OneSpace /\ FilesReached
=============================================================================
