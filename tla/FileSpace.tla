----------------------------- MODULE FileSpace ------------------------------
(***************************************************************************)
(* Files under the sandbox root (os/filesystem/paths.py, service.py): the  *)
(* path is walked without following links, opened without following a      *)
(* link, and the open file is looked at again before its bytes are read or *)
(* written.  Other programs of the user rearrange the tree between any two *)
(* of these steps.  One path of a folder and a file stands for all.        *)
(***************************************************************************)
EXTENDS Naturals

CONSTANTS
    Requests,  \* requests under way
    MaxCalls,  \* bound: calls of the API
    MaxMoves   \* bound: changes of the tree by others

Here == "here"      \* the folder made under the root
There == "there"    \* a folder elsewhere
Folders == {Here, There}

VARIABLES
    folder, \* what the name of the folder is: "dir", "link" to There, "missing"
    home,   \* whether Here still lies under the root
    leaf,   \* folder -> what its file name is: "file", "link", "missing"
    bytes,  \* folder -> the contents of its file
    op,     \* request -> its call
    calls, moves

fsVars == <<folder, home, leaf, bytes, op, calls, moves>>

Empty == "empty"
Foreign == "foreign"   \* what files elsewhere hold
Local == "local"       \* what others write under the root
Sent == "sent"         \* what callers write
Begun == "begun"       \* the beginning of that
Idle == [at |-> "idle"]

Init ==
    /\ folder \in {"dir", "missing"} /\ home = (folder = "dir")
    /\ leaf \in [Folders -> {"file", "missing"}]
    /\ bytes = [d \in Folders |-> IF leaf[d] = "missing" THEN Empty ELSE IF d = Here THEN Local ELSE Foreign]
    /\ op = [r \in Requests |-> Idle]
    /\ calls = 0 /\ moves = 0

-----------------------------------------------------------------------------
(* Other programs                                                          *)

Move ==
    /\ moves < MaxMoves /\ moves' = moves + 1
    /\ UNCHANGED <<op, calls>>

\* The folder is moved away, with or without a link in its place, or put back.
MoveFolder(name) ==
    /\ Move /\ folder' = name /\ name # folder
    /\ home' = (name = "dir")
    /\ UNCHANGED <<leaf, bytes>>

ReplaceLeaf(kind) ==
    /\ Move /\ leaf' = [leaf EXCEPT ![Here] = kind]
    /\ bytes' = [bytes EXCEPT ![Here] = IF kind = "file" THEN Local ELSE Empty]
    /\ UNCHANGED <<folder, home>>

-----------------------------------------------------------------------------
(* The steps of a call                                                     *)

At(r, place) == op[r].at = place
Goto(r, place) == op' = [op EXCEPT ![r].at = place]
Refuse(r, code) == op' = [op EXCEPT ![r].at = "done", ![r].code = code]
Succeed(r, data) == op' = [op EXCEPT ![r].at = "done", ![r].code = "ok", ![r].data = data]
Tree == <<folder, home, leaf, bytes>>

\* The folder that the name leads to now, and what the file name is there.
Target == IF folder = "link" THEN There ELSE Here
Leaf == IF folder = "missing" THEN "missing" ELSE leaf[Target]

\* normalize_user_path: what cannot lie under the root is refused at once.
Begin(r, kind, wellFormed) ==
    /\ op[r].at \in {"idle", "done"} /\ calls < MaxCalls /\ calls' = calls + 1
    /\ op' = [op EXCEPT ![r] = [at |-> IF wellFormed THEN "walk" ELSE "done", kind |-> kind, data |-> Empty,
                                file |-> Here, code |-> IF wellFormed THEN "none" ELSE "PATH_TRAVERSAL"]]
    /\ UNCHANGED <<Tree, moves>>

\* lstat of the folder, then of the file: the last one may be missing.
WalkFolder(r) ==
    /\ At(r, "walk")
    /\ CASE folder = "link" -> Refuse(r, "PATH_SYMLINK_REFUSED")
         [] folder = "missing" -> Refuse(r, "PATH_NOT_FOUND")
         [] folder = "dir" -> Goto(r, "walk leaf")
    /\ UNCHANGED <<Tree, calls, moves>>

WalkLeaf(r) ==
    /\ At(r, "walk leaf")
    /\ IF Leaf = "link" THEN Refuse(r, "PATH_SYMLINK_REFUSED") ELSE Goto(r, op[r].kind)
    /\ UNCHANGED <<Tree, calls, moves>>

\* lstat_under: what the name leads to now, and no link.
Stat(r) ==
    /\ At(r, "stat")
    /\ CASE Leaf = "missing" -> Refuse(r, "PATH_NOT_FOUND")
         [] Leaf = "link" -> Refuse(r, "PATH_SYMLINK_REFUSED")
         [] Leaf = "file" -> Succeed(r, Empty)
    /\ UNCHANGED <<Tree, calls, moves>>

\* open_nofollow: the file the name leads to now; links in the folders before
\* it are followed.
OpenRead(r) ==
    /\ At(r, "read")
    /\ CASE Leaf = "missing" -> Refuse(r, "PATH_NOT_FOUND")
         [] Leaf = "link" -> Refuse(r, "PATH_SYMLINK_REFUSED")
         [] Leaf = "file" -> op' = [op EXCEPT ![r].at = "opened", ![r].file = Target]
    /\ UNCHANGED <<Tree, calls, moves>>

\* A missing folder is made again before the file is opened; the new folder
\* stands for the old one, put back without its files.
MakeParent(r) ==
    /\ At(r, "write") /\ Goto(r, "create")
    /\ IF folder = "missing"
       THEN /\ folder' = "dir" /\ home' = TRUE
            /\ leaf' = [leaf EXCEPT ![Here] = "missing"] /\ bytes' = [bytes EXCEPT ![Here] = Empty]
       ELSE UNCHANGED Tree
    /\ UNCHANGED <<calls, moves>>

\* The file is created, or emptied, before it is looked at again.
OpenWrite(r) ==
    /\ At(r, "create")
    /\ CASE folder = "missing" -> Refuse(r, "PATH_NOT_FOUND") /\ UNCHANGED Tree
         [] Leaf = "link" -> Refuse(r, "PATH_SYMLINK_REFUSED") /\ UNCHANGED Tree
         [] folder # "missing" /\ Leaf # "link" ->
            /\ op' = [op EXCEPT ![r].at = "opened", ![r].file = Target]
            /\ leaf' = [leaf EXCEPT ![Target] = "file"] /\ bytes' = [bytes EXCEPT ![Target] = Empty]
            /\ UNCHANGED <<folder, home>>
    /\ UNCHANGED <<calls, moves>>

\* Mutated form of StillUnder: the name is looked at instead of the open file.
StillUnderByName(file) == folder = "dir"

\* fd_still_under: where the open file lies now.
StillUnder(file) == file = Here /\ home

Recheck(r) ==
    /\ At(r, "opened")
    /\ IF StillUnder(op[r].file) THEN Goto(r, IF op[r].kind = "read" THEN "get" ELSE "put")
       ELSE Refuse(r, "PATH_OUTSIDE_SANDBOX")
    /\ UNCHANGED <<Tree, calls, moves>>

Get(r) ==
    /\ At(r, "get") /\ Succeed(r, bytes[op[r].file])
    /\ UNCHANGED <<Tree, calls, moves>>

\* os.write may write less than it was given, and nobody looks.
Put(r, short) ==
    /\ At(r, "put") /\ Succeed(r, Empty)
    /\ bytes' = [bytes EXCEPT ![op[r].file] = IF short THEN Begun ELSE Sent]
    /\ UNCHANGED <<folder, home, leaf, calls, moves>>

\* unlink_nofollow: the name again; a file that is not there is a success.
Unlink(r) ==
    /\ At(r, "delete")
    /\ CASE Leaf = "link" -> Refuse(r, "PATH_SYMLINK_REFUSED") /\ UNCHANGED <<leaf, bytes>>
         [] Leaf = "missing" -> Succeed(r, Empty) /\ UNCHANGED <<leaf, bytes>>
         [] Leaf = "file" ->
            /\ Succeed(r, Empty)
            /\ leaf' = [leaf EXCEPT ![Target] = "missing"] /\ bytes' = [bytes EXCEPT ![Target] = Empty]
    /\ UNCHANGED <<folder, home, calls, moves>>

Next ==
    \/ \E name \in {"dir", "link", "missing"} : MoveFolder(name)
    \/ \E kind \in {"file", "link", "missing"} : ReplaceLeaf(kind)
    \/ \E r \in Requests :
        \/ \E kind \in {"read", "write", "delete", "stat"}, wellFormed \in BOOLEAN : Begin(r, kind, wellFormed)
        \/ WalkFolder(r) \/ WalkLeaf(r) \/ Stat(r) \/ OpenRead(r) \/ MakeParent(r) \/ OpenWrite(r)
        \/ Recheck(r) \/ Get(r) \/ Unlink(r)
        \/ \E short \in BOOLEAN : Put(r, short)

Spec == Init /\ [][Next]_fsVars

-----------------------------------------------------------------------------
(* Properties                                                              *)

TypeOK ==
    /\ home = (folder = "dir") /\ leaf \in [Folders -> {"file", "link", "missing"}]
    /\ \A d \in Folders : bytes[d] \in {Empty, Foreign, Local, Sent, Begun}
    /\ \A d \in Folders : leaf[d] # "file" => bytes[d] \in {Empty, Sent, Begun}

(***************************************************************************)
(* Whatever is rearranged while a call is under way, no bytes of a file    *)
(* elsewhere are answered and no bytes of a caller land in one             *)
(* (read_bytes_nofollow, write_bytes_nofollow).  A file elsewhere may be   *)
(* emptied, created or removed: only bytes wait for the second look.       *)
(***************************************************************************)
BytesStayInside ==
    /\ \A r \in Requests : At(r, "done") => op[r].data # Foreign
    /\ bytes[There] \notin {Sent, Begun}

(***************************************************************************)
(* While nobody else touches the tree, what a caller was told is so: a     *)
(* file that was written by one call after the other is there, and one     *)
(* that was deleted is not.                                                *)
(***************************************************************************)
AloneIsTold ==
    \A r \in Requests :
        moves = 0 /\ At(r, "done") /\ op[r].code = "ok" /\ (\A q \in Requests \ {r} : At(q, "idle")) =>
            CASE op[r].kind = "write" -> leaf[Here] = "file" /\ bytes[Here] \in {Sent, Begun}
              [] op[r].kind = "delete" -> leaf[Here] = "missing"
              [] op[r].kind = "stat" -> leaf[Here] = "file"
              [] OTHER -> TRUE

(***************************************************************************)
(* Files are read and written under the root.                              *)
(***************************************************************************)
FilesAreSound == BytesStayInside /\ AloneIsTold

=============================================================================
