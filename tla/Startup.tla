------------------------------- MODULE Startup -------------------------------
(***************************************************************************)
(* From the mounted root to the end of init's script: the kernel mounts    *)
(* its own file systems (devfs.c, ramfs.c), reads the users and groups     *)
(* (users.c) and starts init (kernel/init.c), which has a shell run the    *)
(* script of the profile (bin/init.c).                                     *)
(*                                                                         *)
(* The nodes of the root are records with a path, a type and data; a line  *)
(* of a text file is one unit of its data.  Assumed of the root: it has    *)
(* /etc/users and /etc/groups, whose lines end with a newline.             *)
(***************************************************************************)
EXTENDS BootMenu, Shell
LOCAL INSTANCE SequencesExt

CONSTANTS
    MAX_USERS, MAX_GROUPS,
    Codes       \* exit codes of programs

VARIABLES
    mounts,     \* paths that something is mounted on
    db          \* users and groups, each a function from ids

startVars == <<mounts, db, sh>>

StartInit ==
    /\ mounts = {}
    /\ db = [users |-> << >>, groups |-> << >>]
    /\ sh = NewShell(<<>>, [uname |-> "", gname |-> ""])

-----------------------------------------------------------------------------
(* Mounts hide what is below them.  Of /dev only what devfs.c adds itself  *)
(* is listed; a ramfs starts with nothing but dummies.                     *)

Path(node) == FoldLeft(LAMBDA text, name : text \o "/" \o name, "", node.path)

Devices ==
    {[path |-> <<"dev", name>>, type |-> IF name = "chnl" THEN "dir" ELSE "device",
      data |-> <<>>] : name \in {"null", "zero", "chnl"}}

Visible(nodes) ==
    {node \in nodes : \A other \in nodes :
        IsStrictPrefix(other.path, node.path) => Path(other) \notin mounts}
    \cup (IF "/dev" \in mounts THEN Devices ELSE {})

Named(nodes, path) == {node \in Visible(nodes) : Path(node) = path}

\* devfs_init, then ramfs_init if the command line names a place.
Mount(nodes, place) ==
    LET dev == Named(nodes, "/dev") # {}
        tmp == place = "" \/ Named(nodes, place) # {}
    IN /\ pc = "up"
       /\ IF dev /\ tmp
          THEN /\ pc' = "users"
               /\ mounts' = {"/dev"} \cup ({place} \ {""})
          ELSE pc' = "panic" /\ UNCHANGED mounts
       /\ UNCHANGED <<db, sh>>

-----------------------------------------------------------------------------
(* Users and groups.  A line is a sequence of elements, the id first.      *)

\* An element that is missing is empty, and an empty id is 0.
Elem(line, i) == IF i <= Len(line) THEN line[i] ELSE ""
Id(line) == IF line = <<>> THEN 0 ELSE line[1]

\* An id that is too high or given before is passed over
\* (user_register_group).
AddGroup(d, line) ==
    IF Id(line) >= MAX_GROUPS \/ Id(line) \in DOMAIN d.groups THEN d
    ELSE [d EXCEPT !.groups = Id(line) :> Elem(line, 2) @@ @]

\* The group's name has to be known (parse_text, user_register).
AddUser(d, line) ==
    LET gid == CHOOSE g \in DOMAIN d.groups : d.groups[g] = Elem(line, 3)
        user == [name |-> Elem(line, 2), gid |-> gid]
    IN IF Id(line) >= MAX_USERS \/ Id(line) \in DOMAIN d.users THEN d
       ELSE [d EXCEPT !.users = Id(line) :> user @@ @]

KnownGroup(d, line) == \E g \in DOMAIN d.groups : d.groups[g] = Elem(line, 3)

\* user_init, with the lines of both files; a line that is too long stops
\* the system, and so does a user without a group.
UserInit(users, groups) ==
    LET withGroups == FoldLeft(AddGroup, db, groups)
        long(lines, n) == \E i \in DOMAIN lines : Len(lines[i]) > n
        bad == \/ long(groups, 2) \/ long(users, 4)
               \/ \E i \in DOMAIN users : ~KnownGroup(withGroups, users[i])
    IN /\ pc = "users"
       /\ IF bad THEN pc' = "panic" /\ UNCHANGED db
          ELSE pc' = "init" /\ db' = FoldLeft(AddUser, withGroups, users)
       /\ UNCHANGED <<mounts, sh>>

\* sys_getuser for the user that init runs as; the group that is looked up
\* is the one with the user's own id (syscall.c:481).
GetUser(uid) ==
    IF uid \in DOMAIN db.users /\ uid \in DOMAIN db.groups
    THEN [uname |-> db.users[uid].name, gname |-> db.groups[uid]]
    ELSE [uname |-> "", gname |-> ""]

-----------------------------------------------------------------------------
(* init and its shell.                                                     *)

Lines(nodes, path) ==
    LET file == {node \in Named(nodes, path) : node.type = "file"}
        data == (CHOOSE node \in file : TRUE).data
    IN IF file = {} THEN <<>> ELSE [i \in DOMAIN data |-> data[i][2]]

\* The script that init has the shell run.
ScriptOf(profile) == "/etc/init." \o profile

\* init_load, then main of init: without /bin/init the kernel stops; without
\* /bin/sh init ends and the kernel idles; without the script the shell ends
\* at once.
InitLoad(nodes, profile) ==
    /\ pc = "init"
    /\ pc' = CASE Named(nodes, "/bin/init") = {} -> "panic"
               [] Named(nodes, "/bin/sh") = {} -> "idle"
               [] OTHER -> "script"
    /\ sh' = NewShell(Lines(nodes, ScriptOf(profile)), GetUser(0))
    /\ UNCHANGED <<mounts, db>>

\* The type of each path, for the shell.
Types(nodes) ==
    [path \in {Path(node) : node \in Visible(nodes)} |->
        (CHOOSE node \in Named(nodes, path) : TRUE).type]

Script(nodes) ==
    /\ pc = "script"
    /\ \E code \in Codes : Command(Types(nodes), code)
    /\ UNCHANGED <<pc, mounts, db>>

\* When the shell is done, init stops the system.
ScriptEnds ==
    /\ pc = "script" /\ sh.lines = <<>>
    /\ pc' = "over"
    /\ UNCHANGED startVars
=============================================================================
