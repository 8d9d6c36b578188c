---------------------------- MODULE MCWorkspace ----------------------------
(* What a user keeps: conversations with their rows and lists, groups,      *)
(* files, their place in the file browser, and the long-term memory.  The   *)
(* models share no state: one of them moves in each behaviour, the one in   *)
(* focus.  The memory has two instances: in one the user edits and speaks   *)
(* while jobs run whose keys last, in the other the keys may expire under   *)
(* the jobs of a user who only speaks.                                      *)
EXTENDS ConversationStore, GroupChat, WorkspaceFiles, FileBrowser, MemoryConsolidation

VARIABLE focus
workspaceVars == <<focus, storeVars, groupVars, fileVars, browseVars, memoryVars>>

(* The tails of folder names that start with another folder's name.         *)
Rests       == <<"ab", "a">> :> "b"
FolderPaths == {<<>>, <<"a">>, <<"a", "b">>, <<"ab", "b">>}

WorkspaceInit ==
  /\ focus \in {"store", "group", "file", "browse", "edits", "dreams"}
  /\ StoreInit /\ GroupInit /\ FileInit /\ BrowseInit /\ MemoryInit
  /\ focus # "file" => file.backend = "db"
  /\ focus \notin {"edits", "dreams"} => dreamLock.key = "none"

WorkspaceNext ==
  /\ UNCHANGED focus
  /\ \/ focus = "store" /\ StoreNext
        /\ UNCHANGED <<groupVars, fileVars, browseVars, memoryVars>>
     \/ focus = "group" /\ GroupNext
        /\ UNCHANGED <<storeVars, fileVars, browseVars, memoryVars>>
     \/ focus = "file" /\ FileNext
        /\ UNCHANGED <<storeVars, groupVars, browseVars, memoryVars>>
     \/ focus = "browse" /\ BrowseNext
        /\ UNCHANGED <<storeVars, groupVars, fileVars, memoryVars>>
     \/ /\ \/ focus = "edits" /\ MemoryNext /\ ~LockExpires /\ ~CooldownExpires
           \/ focus = "dreams" /\ MemoryNext /\ UNCHANGED editor
        /\ UNCHANGED <<storeVars, groupVars, fileVars, browseVars>>

WorkspaceSpec == WorkspaceInit /\ [][WorkspaceNext]_workspaceVars
=============================================================================
