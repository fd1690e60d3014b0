-------------------------------- MODULE Vfs --------------------------------
(***************************************************************************)
(* The virtual filesystem of vfs.cpp: directories that point at their      *)
(* entries and at their parent, and a scanner that is shared by all calls  *)
(* and keeps what the last parse left unread.                              *)
(*                                                                         *)
(* A path is a sequence of lexemes: identifiers ("." and ".." among them), *)
(* "/", ":", and "?" for a character that scanToken skips.                 *)
(***************************************************************************)
EXTENDS Naturals, Sequences, FiniteSets, SequencesExt, FiniteSetsExt, TLC

CONSTANTS
    Inputs,         \* the paths given to the calls
    MountNames,     \* the names given to mount
    MaxNodes        \* bound of the model: directories and files at a time

Punctuation == {"/", ":", "?"}
Lexemes     == UNION { ToSet(path) : path \in Inputs }
Tokens      == Lexemes \ {"?", ".", ".."}
Node        == 1 .. MaxNodes

\* FILE_TYPE_DEVICE is told from FILE_TYPE_NONE by nothing.
Types       == {"none", "directory", "file"}

\* Two identifiers in a row are one, so none of the paths has two.
ASSUME VfsAssumption ==
    /\ MaxNodes \in Nat
    /\ \A path \in Inputs : \A i \in 1 .. Len(path) - 1 :
         path[i] \in Punctuation \/ path[i + 1] \in Punctuation

VARIABLES
    phase,              \* "alive", "crashed" or "destroyed"
    mountpoints,        \* the root directory of each mountpoint
    name,               \* the name of each live node
    type,               \* its type
    files,              \* the entries of each live directory, in order
    previousDirectory,  \* its parent
    scanner,            \* what the scanner has not read yet
    last                \* the last call and its answer

tree == <<name, type, files, previousDirectory>>
vars == <<phase, mountpoints, tree, scanner, last>>

Live == DOMAIN name

TypeOK ==
    /\ phase \in {"alive", "crashed", "destroyed"}
    /\ DOMAIN mountpoints \subseteq MountNames
    /\ \A m \in DOMAIN mountpoints : mountpoints[m] \in Live
    /\ Live \subseteq Node
    /\ name \in [Live -> Tokens \cup {"noname"}]
    /\ type \in [Live -> Types]
    /\ DOMAIN files = DOMAIN previousDirectory
    /\ DOMAIN files \subseteq Live
    /\ \A d \in DOMAIN files : files[d] \in Seq(Live) /\ previousDirectory[d] \in DOMAIN files
    /\ \E path \in Inputs : scanner \in Suffixes(path)

-----------------------------------------------------------------------------
(* The scanner and the parser *)

\* s without its longest prefix of lexemes in a set.
DropWhile(s, set) ==
    LET n == CHOOSE n \in 0 .. Len(s) :
               /\ \A i \in 1 .. n : s[i] \in set
               /\ n < Len(s) => s[n + 1] \notin set
    IN  SubSeq(s, n + 1, Len(s))

\* scanToken: the next token and what is left; "/" and ":" take the slashes
\* that follow with them.
ScanToken(s) ==
    LET t == DropWhile(s, {"?"})
    IN  IF t = <<>> THEN [token |-> "", rest |-> <<>>]
        ELSE [ token |-> Head(t),
               rest  |-> IF Head(t) \in {"/", ":"} THEN DropWhile(Tail(t), {"/"})
                         ELSE Tail(t) ]

\* parse: a branch for each token that a "/" separates from the next.  It
\* stops at the first other token, which is read, and leaves the rest.
Parse(s) ==
    LET parse[t \in Suffixes(s)] ==
            LET one    == ScanToken(t)
                two    == ScanToken(one.rest)
                pushed == IF one.token = "" THEN <<>> ELSE <<one.token>>
            IN  IF two.token = "/"
                THEN [parse[two.rest] EXCEPT !.branches = pushed \o @]
                ELSE [branches |-> pushed, rest |-> two.rest]
    IN  parse[s]

-----------------------------------------------------------------------------
(* Directories *)

\* Fault: the last entry is not looked at.
FindFileButLast(d, n) ==
    LET hits == { i \in 1 .. Len(files[d]) - 1 : name[files[d][i]] = n }
    IN  IF hits = {} THEN 0 ELSE files[d][Min(hits)]

\* Directory::findFile: the first entry of the name, or 0.
FindFile(d, n) ==
    LET hits == { i \in 1 .. Len(files[d]) : name[files[d][i]] = n }
    IN  IF hits = {} THEN 0 ELSE files[d][Min(hits)]

\* What is deleted with a node: Directory::~Directory deletes its entries.
Deleted(n) ==
    LET reach[k \in 0 .. MaxNodes] ==
            IF k = 0 THEN {n}
            ELSE reach[k - 1] \cup
                 UNION { ToSet(files[d]) : d \in reach[k - 1] \cap DOMAIN files }
    IN  reach[MaxNodes]

Restricted(f, S) == [x \in DOMAIN f \cap S |-> f[x]]

Fresh == Min(Node \ Live)

\* Where a walk along branches is: at a directory, still going or not.
Step(at, status) == [at |-> at, status |-> status]

\* The loop of createFile: a missing name may only be the last branch.
Walk(root, branches, filetype) ==
    LET walk[i \in 0 .. Len(branches)] ==
            IF i = 0 THEN Step(root, "going")
            ELSE LET at   == walk[i - 1].at
                     b    == branches[i]
                     file == FindFile(at, b)
                 IN  IF walk[i - 1].status # "going" \/ b = "." THEN walk[i - 1]
                     ELSE IF b = ".." THEN Step(previousDirectory[at], "going")
                     ELSE IF file # 0
                     THEN IF type[file] = "directory" THEN Step(file, "going")
                          ELSE Step(at, "refused")
                     ELSE IF filetype = "none" \/ i # Len(branches)
                     THEN Step(at, "refused")
                     ELSE Step(at, "adds")
    IN  walk[Len(branches)]

\* Where getFile is: at a directory, the path so far and those before it.
Trail(at, path, old, found) == [at |-> at, path |-> path, old |-> old, found |-> found]

\* Fault: the path of the directory left is not taken back.
FollowWithoutBack(root, branches) ==
    LET follow[i \in 0 .. Len(branches)] ==
            IF i = 0 THEN Trail(root, <<>>, <<>>, TRUE)
            ELSE LET t    == follow[i - 1]
                     b    == branches[i]
                     file == FindFile(t.at, b)
                 IN  IF ~ t.found \/ b = "." THEN t
                     ELSE IF b = ".."
                     THEN Trail(previousDirectory[t.at], t.path, t.old, TRUE)
                     ELSE IF file = 0 THEN [t EXCEPT !.found = FALSE]
                     ELSE IF type[file] = "directory"
                     THEN Trail(file, t.path \o <<b, "/">>, Append(t.old, t.path), TRUE)
                     ELSE Trail(t.at, Append(t.path, b), Append(t.old, t.path), TRUE)
    IN  follow[Len(branches)]

\* The loop of getFile: a file in the middle is named but not refused, and
\* what follows is looked for beside it.
Follow(root, branches) ==
    LET follow[i \in 0 .. Len(branches)] ==
            IF i = 0 THEN Trail(root, <<>>, <<>>, TRUE)
            ELSE LET t    == follow[i - 1]
                     b    == branches[i]
                     file == FindFile(t.at, b)
                 IN  IF ~ t.found \/ b = "." THEN t
                     ELSE IF b = ".." /\ t.old = <<>>
                     THEN Trail(previousDirectory[t.at], t.path, t.old, TRUE)
                     ELSE IF b = ".."
                     THEN Trail(previousDirectory[t.at], Last(t.old), Front(t.old), TRUE)
                     ELSE IF file = 0 THEN [t EXCEPT !.found = FALSE]
                     ELSE IF type[file] = "directory"
                     THEN Trail(file, t.path \o <<b, "/">>, Append(t.old, t.path), TRUE)
                     ELSE Trail(t.at, Append(t.path, b), Append(t.old, t.path), TRUE)
    IN  follow[Len(branches)]

\* What getFile answers for a path: the path it followed, or nothing.
Answer(path) ==
    LET t == Follow(mountpoints["ux0"], Parse(path).branches)
    IN  IF t.found THEN t.path ELSE <<>>

-----------------------------------------------------------------------------
Init ==
    /\ phase = "alive"
    /\ mountpoints = << >>
    /\ name = << >> /\ type = << >> /\ files = << >> /\ previousDirectory = << >>
    /\ scanner = <<>>
    /\ last = [op |-> "none", path |-> <<>>, answer |-> FALSE]

Answers(op, path, answer) == last' = [op |-> op, path |-> path, answer |-> answer]

\* mount: a root directory of type 0 that is its own parent.
Mount(m) ==
    /\ phase = "alive"
    /\ IF m \in DOMAIN mountpoints
       THEN UNCHANGED <<mountpoints, tree>>
       ELSE /\ Live # Node
            /\ mountpoints' = mountpoints @@ (m :> Fresh)
            /\ name' = name @@ (Fresh :> "noname")
            /\ type' = type @@ (Fresh :> "none")
            /\ files' = files @@ (Fresh :> <<>>)
            /\ previousDirectory' = previousDirectory @@ (Fresh :> Fresh)
    /\ Answers("mount", <<m>>, m \notin DOMAIN mountpoints)
    /\ UNCHANGED <<phase, scanner>>

\* Every path is looked up in "ux0", and without it a null root is used.
Crash(rest) ==
    /\ phase = "alive"
    /\ "ux0" \notin DOMAIN mountpoints
    /\ phase' = "crashed"
    /\ scanner' = rest
    /\ UNCHANGED <<mountpoints, tree, last>>

\* A call on the tree of "ux0" that leaves rest in the scanner.
Works(rest) ==
    /\ phase = "alive"
    /\ "ux0" \in DOMAIN mountpoints
    /\ scanner' = rest
    /\ UNCHANGED <<phase, mountpoints>>

\* createFile.  What it allocates for a name that turns out not to be the last
\* is in no directory, and left out.
CreateFile(filetype, path) ==
    LET p == Parse(path)
        w == Walk(mountpoints["ux0"], p.branches, filetype)
        n == Last(p.branches)
    IN  \/ Crash(p.rest)
        \/ /\ Works(p.rest)
           /\ IF w.status # "adds" THEN UNCHANGED tree
              ELSE /\ Live # Node
                   /\ name' = name @@ (Fresh :> n)
                   /\ type' = type @@ (Fresh :> filetype)
                   /\ IF filetype = "directory"
                      THEN /\ files' = [files EXCEPT ![w.at] = Append(@, Fresh)]
                                         @@ (Fresh :> <<>>)
                           /\ previousDirectory' = previousDirectory @@ (Fresh :> w.at)
                      ELSE /\ files' = [files EXCEPT ![w.at] = Append(@, Fresh)]
                           /\ UNCHANGED previousDirectory
           /\ Answers("createFile", path, w.status # "refused")

\* removeFile's loop: the directory the ".." lead to, and the last name.
Climbed(root, branches) ==
    FoldLeft(LAMBDA d, b : IF b = ".." THEN previousDirectory[d] ELSE d, root, branches)

LastName(branches) ==
    LET names == { i \in 1 .. Len(branches) : branches[i] \notin {".", ".."} }
    IN  IF names = {} THEN "" ELSE branches[Max(names)]

\* Fault: the pointer stays in the directory.
DeleteKeepingEntry(d, n) ==
    LET kept == Live \ Deleted(n)
    IN  /\ name' = Restricted(name, kept)
        /\ type' = Restricted(type, kept)
        /\ files' = Restricted(files, kept)
        /\ previousDirectory' = Restricted(previousDirectory, kept)

\* Directory::removeFile.
Delete(d, n) ==
    LET kept == Live \ Deleted(n)
    IN  /\ name' = Restricted(name, kept)
        /\ type' = Restricted(type, kept)
        /\ files' = Restricted([files EXCEPT ![d] = Remove(@, n)], kept)
        /\ previousDirectory' = Restricted(previousDirectory, kept)

\* Fault: the entry goes but what is in it stays.
RemoveFileShallow(path) ==
    LET p    == Parse(scanner)
        at   == Climbed(mountpoints["ux0"], p.branches)
        file == FindFile(at, LastName(p.branches))
    IN  \/ Crash(p.rest)
        \/ /\ Works(p.rest)
           /\ IF file = 0 THEN UNCHANGED tree
              ELSE /\ files' = [files EXCEPT ![at] = Remove(@, file)]
                   /\ UNCHANGED <<name, type, previousDirectory>>
           /\ Answers("removeFile", path, file # 0)

\* removeFile: the path it is given is not scanned; it goes on with what the
\* scanner still has.
RemoveFile(path) ==
    LET p    == Parse(scanner)
        at   == Climbed(mountpoints["ux0"], p.branches)
        file == FindFile(at, LastName(p.branches))
    IN  \/ Crash(p.rest)
        \/ /\ Works(p.rest)
           /\ IF file = 0 THEN UNCHANGED tree ELSE Delete(at, file)
           /\ Answers("removeFile", path, file # 0)

\* getFile changes nothing but the scanner.
GetFile(path) ==
    \/ Crash(Parse(path).rest)
    \/ /\ Works(Parse(path).rest)
       /\ Answers("getFile", path, Answer(path) # <<>>)
       /\ UNCHANGED tree

\* ~VirtualFilesystem.
Destroy ==
    /\ phase = "alive"
    /\ phase' = "destroyed"
    /\ mountpoints' = << >>
    /\ name' = << >> /\ type' = << >> /\ files' = << >> /\ previousDirectory' = << >>
    /\ Answers("destroy", <<>>, TRUE)
    /\ UNCHANGED scanner

Next ==
    \/ \E m \in MountNames : Mount(m)
    \/ \E filetype \in Types, path \in Inputs : CreateFile(filetype, path)
    \/ \E path \in Inputs : RemoveFile(path) \/ GetFile(path)
    \/ Destroy

Spec == Init /\ [][Next]_vars

-----------------------------------------------------------------------------
\* The nodes that are reached from the mountpoints, each with its path.
Reached ==
    LET level[k \in 0 .. MaxNodes] ==
            IF k = 0
            THEN { [path |-> <<m>>, node |-> mountpoints[m]] : m \in DOMAIN mountpoints }
            ELSE UNION { { [path |-> Append(e.path, name[f]), node |-> f] :
                             f \in ToSet(files[e.node]) } :
                         e \in { r \in level[k - 1] : r.node \in DOMAIN files } }
    IN  UNION { level[k] : k \in 0 .. MaxNodes }

Entries ==
    { [path |-> r.path,
       type |-> IF r.node \in DOMAIN files THEN "directory" ELSE "file"] : r \in Reached }

Tree == INSTANCE FileTree WITH entries <- Entries, Names <- Tokens

\* The pointers always make a tree, whatever names the paths held: a call adds
\* at most one entry, below a directory and under a new name, or cuts one
\* branch with all that is in it.
ImplementsTree == Tree!Spec

\* Directories know the directory they are in, every live node is in exactly
\* one, and none is below itself, so ".." never leaves the mountpoint and no
\* node of the tree is lost, freed twice or reached after it was freed.
ParentsAgree ==
    /\ { r.node : r \in Reached } = Live
    /\ Cardinality(Reached) = Cardinality(Live)
    /\ \A d \in DOMAIN files : \A f \in ToSet(files[d]) \cap DOMAIN files :
         previousDirectory[f] = d

\* What was created is found: when createFile answered true, getFile of the
\* same path answers with the path of something that is there, unless the
\* path leads back to the root.
FoundWhereCreated ==
    phase = "alive" /\ last.op = "createFile" /\ last.answer =>
        LET found == Follow(mountpoints["ux0"], Parse(last.path).branches)
            names == SelectSeq(found.path, LAMBDA t : t # "/")
        IN  /\ found.found
            /\ \E r \in Reached : r.path = <<"ux0">> \o names
=============================================================================
