------------------------------- MODULE TarFS -------------------------------
(***************************************************************************)
(* HW6: a FUSE server that mounts test.tar.  parse_tar_file reads the      *)
(* archive front to back and builds a tree of nodes: an entry may name a   *)
(* path whose directories have no entry yet (they get default nodes) or a  *)
(* path that has a node already (it is updated).  Afterwards the tree only *)
(* is read: the handlers change nothing, so they are operators.            *)
(*                                                                         *)
(* A path is the sequence of its parts, as split_path returns it: empty    *)
(* parts, and so a trailing slash, have no effect.  Permissions, owner and *)
(* mtime travel together and are named by the entry they come from.        *)
(***************************************************************************)
EXTENDS Integers, FiniteSets, SequencesExt

CONSTANTS
  Block,       \* the block size of tar (512)
  Paths,       \* the names of archive entries
  Sizes,       \* the sizes of archived files
  MaxEntries   \* bound: entries of the archive

ASSUME BlockAssumption == Block \in Nat \ {0}
ASSUME SizesAssumption == Sizes \subseteq Nat
\* A name has at least one part: parts.back() of none is undefined.
ASSUME PathsAssumption == Paths \subseteq Seq(UNION {ToSet(p) : p \in Paths}) \ {<<>>}
ASSUME EntriesAssumption == MaxEntries \in Nat

VARIABLES
  archive,  \* the entries of test.tar; the file never changes
  pos,      \* the position of fp
  cur,      \* the byte offset that parse_tar_file keeps itself
  nodes,    \* every FileNode, the root first; childs are indices of nodes
  phase     \* "parsing" or "mounted"

vars == <<archive, pos, cur, nodes, phase>>

NULL == 0
Root == 1

---------------------------------------------------------------------------
(* The tar file.                                                           *)

\* Files are followed by their content; of the types the parser does not
\* know, a few (the extended headers) are too.
Header(path, typeflag, size) == [path |-> path, typeflag |-> typeflag, size |-> size]
Headers ==
  {Header(p, f, n) : p \in Paths, f \in {"file", "other"}, n \in Sizes}
    \cup {Header(p, f, 0) : p \in Paths, f \in {"dir", "link"}}

\* What entry e occupies: a header, the bytes of the file, and zeros that
\* fill the last block.
Padding(n) == (Block - (n % Block)) % Block
Content(e) == [k \in 1..archive[e].size |-> <<"byte", e, k - 1>>]
Zeros(n)   == [k \in 1..n |-> <<"zero">>]
Extent(e)  == [k \in 1..Block |-> <<"header", e>>] \o Content(e)
                \o Zeros(Padding(archive[e].size))

\* test.tar ends with two empty blocks.
Tape ==
  LET tape[e \in 0..Len(archive)] == IF e = 0 THEN <<>> ELSE tape[e - 1] \o Extent(e)
  IN tape[Len(archive)] \o Zeros(2 * Block)

\* fread of size bytes at an offset, fewer at the end of the file.
FRead(offset, size) ==
  LET end == IF offset + size > Len(Tape) THEN Len(Tape) ELSE offset + size
  IN SubSeq(Tape, offset + 1, end)

---------------------------------------------------------------------------
(* The tree.                                                               *)

\* A default directory; its mtime is never initialised.
DefaultDir(name) ==
  [name |-> name, type |-> "dir", size |-> 0, mode |-> <<"dir", "0755">>,
   meta |-> "uninitialised", offset |-> 0, link |-> <<>>, childs |-> <<>>]

\* The node of entry e, whose content starts at offset.
EntryNode(e, offset) ==
  LET h == archive[e]
  IN [name |-> Last(h.path), type |-> h.typeflag,
      size |-> IF h.typeflag \in {"dir", "link"} THEN 0 ELSE h.size,
      mode |-> IF h.typeflag = "other" THEN <<>> ELSE <<h.typeflag, e>>,
      meta |-> e, offset |-> offset,
      link |-> IF h.typeflag = "link" THEN <<"target", e>> ELSE <<>>, childs |-> <<>>]

\* The first child of node n that bears the name.
Child(t, n, name) ==
  LET found == {k \in DOMAIN t[n].childs : t[t[n].childs[k]].name = name}
  IN IF found = {} THEN NULL ELSE t[n].childs[Min(found)]

AddChild(t, n, node) ==
  Append([t EXCEPT ![n].childs = Append(@, Len(t) + 1)], node)

\* root->find_node(path)
find_node(t, path) ==
  LET curr[k \in 0..Len(path)] ==
        IF k = 0 THEN Root
        ELSE IF curr[k - 1] = NULL THEN NULL ELSE Child(t, curr[k - 1], path[k])
  IN curr[Len(path)]

\* One round of get_parent_node: a missing directory is created.
Descend(at, part) ==
  LET found == Child(at.nodes, at.curr, part)
  IN IF found # NULL
     THEN [nodes |-> at.nodes, curr |-> found]
     ELSE [nodes |-> AddChild(at.nodes, at.curr, DefaultDir(part)),
           curr  |-> Len(at.nodes) + 1]

\* The node of everything but the last part of the path, and the tree that
\* has all directories on the way.
get_parent_node(t, path) ==
  LET at[k \in 0..(Len(path) - 1)] ==
        IF k = 0 THEN [nodes |-> t, curr |-> Root] ELSE Descend(at[k - 1], path[k])
  IN at[Len(path) - 1]

\* Mutant: the mode is forgotten when a node is updated.
UpdateKeepingMode(existing, node) ==
  [node EXCEPT !.childs = existing.childs, !.mode = existing.mode]

\* An existing node takes over everything but its childs.
Update(existing, node) == [node EXCEPT !.childs = existing.childs]

\* Mutant: no look for an existing node.
StoreAlways(t, parent, node) == AddChild(t, parent, node)

\* The node becomes a child of its parent unless a default node, or an
\* earlier entry's, is there.
Store(t, parent, node) ==
  LET existing == Child(t, parent, node.name)
  IN IF existing # NULL
     THEN [t EXCEPT ![existing] = Update(@, node)]
     ELSE AddChild(t, parent, node)

---------------------------------------------------------------------------
(* Parsing.                                                                *)

Init ==
  /\ archive \in UNION {[1..n -> Headers] : n \in 0..MaxEntries}
  /\ pos = 0 /\ cur = 0
  /\ nodes = <<DefaultDir("/")>>
  /\ phase = "parsing"

\* Mutant: the last, partial block of the content is not skipped.
ContentBlocksDown(size) == size \div Block

ContentBlocks(size) == (size + Block - 1) \div Block

\* A header could be read and its name is not empty.
AtHeader == FRead(pos, Block) # <<>> /\ Head(FRead(pos, Block))[1] = "header"

\* One iteration of the loop of parse_tar_file.
ParseEntry ==
  /\ phase = "parsing" /\ AtHeader
  /\ LET e == Head(FRead(pos, Block))[2]
         h == archive[e]
         parent == get_parent_node(nodes, h.path)
         skipped == ContentBlocks(h.size) * Block
     IN /\ nodes' = Store(parent.nodes, parent.curr, EntryNode(e, cur + Block))
        /\ pos' = pos + Block + skipped
        /\ cur' = cur + Block + skipped
  /\ UNCHANGED <<archive, phase>>

\* The loop ends at an empty header or the end of the file, and fuse_main
\* serves requests.
Mount ==
  /\ phase = "parsing" /\ ~AtHeader
  /\ phase' = "mounted"
  /\ UNCHANGED <<archive, pos, cur, nodes>>

Next == ParseEntry \/ Mount

Spec == Init /\ [][Next]_vars

---------------------------------------------------------------------------
(* The handlers.                                                           *)

my_getattr(path) ==
  LET n == find_node(nodes, path)
  IN IF n = NULL THEN [errno |-> "ENOENT"]
     ELSE [mode |-> nodes[n].mode, size |-> nodes[n].size, meta |-> nodes[n].meta]

my_readdir(path) ==
  LET n == find_node(nodes, path)
  IN IF n = NULL THEN <<"ENOENT">>
     ELSE IF nodes[n].type # "dir" THEN <<"ENOTDIR">>
     ELSE <<".", "..">> \o [k \in DOMAIN nodes[n].childs |-> nodes[nodes[n].childs[k]].name]

my_readlink(path) ==
  LET n == find_node(nodes, path)
  IN IF n = NULL THEN <<"ENOENT">>
     ELSE IF nodes[n].type # "link" THEN <<"EINVAL">> ELSE nodes[n].link

\* The archive is opened anew for every read; opened says whether that works.
my_read(path, size, offset, opened) ==
  LET n == find_node(nodes, path)
  IN IF n = NULL THEN <<"ENOENT">>
     ELSE IF offset >= nodes[n].size THEN <<>>
     ELSE IF ~opened THEN <<"errno">>
     ELSE LET clipped == IF offset + size > nodes[n].size
                         THEN nodes[n].size - offset ELSE size
          IN FRead(nodes[n].offset + offset, clipped)

---------------------------------------------------------------------------
(* What the mounted tree promises, in terms of the archive alone.          *)

Named(path) == {e \in DOMAIN archive : archive[e].path = path}
LastOf(path) == CHOOSE e \in Named(path) : \A f \in Named(path) : f <= e
ImpliedPaths == {<<>>} \cup UNION {Prefixes(archive[e].path) : e \in DOMAIN archive}

\* getattr and readlink answer for every path of the archive with what its
\* last entry says, in whatever order children, parents and repeated entries
\* came; a directory that only is implied is there with default permissions.
\* No entry names the root: what its permissions are is not up to the archive.
MirrorsArchive ==
  phase = "mounted" =>
    \A path \in ImpliedPaths \ {<<>>} :
      IF Named(path) = {}
      THEN my_getattr(path).mode = <<"dir", "0755">>
      ELSE LET e == LastOf(path) flag == archive[e].typeflag
           IN flag # "other" =>
                /\ my_getattr(path) = [mode |-> <<flag, e>>, size |-> archive[e].size, meta |-> e]
                /\ my_readlink(path) = IF flag = "link" THEN <<"target", e>> ELSE <<"EINVAL">>

\* readdir of a directory lists every name the archive has below it, once,
\* and nothing else.
ListsOnce ==
  phase = "mounted" =>
    \A path \in ImpliedPaths :
      (Named(path) = {} \/ archive[LastOf(path)].typeflag = "dir") =>
        LET names == {Last(p) : p \in {q \in ImpliedPaths \ {<<>>} : Front(q) = path}}
        IN /\ ToSet(my_readdir(path)) = {".", ".."} \cup names
           /\ Len(my_readdir(path)) = 2 + Cardinality(names)

\* read returns the bytes of the file that was asked for, as many as were
\* asked for and the file has left, and never padding or a header; where it
\* has bytes left and the archive cannot be opened, it says so.
ReadsContent ==
  phase = "mounted" =>
    \A e \in DOMAIN archive :
      e = LastOf(archive[e].path) =>
        \A offset \in 0..(archive[e].size + 1), size \in 0..(archive[e].size + 1) :
          LET content == [k \in 1..Min({size, Max({archive[e].size - offset, 0})}) |->
                            Content(e)[offset + k]]
              unopened == IF offset < archive[e].size THEN <<"errno">> ELSE <<>>
          IN /\ my_read(archive[e].path, size, offset, TRUE) = content
             /\ my_read(archive[e].path, size, offset, FALSE) = unopened

\* "Files in the tar files can be accessed through the directory tree": the
\* kernel resolves the part "." of a path itself, so that a file is asked
\* for by its path without it.
FilesAccessible ==
  phase = "mounted" =>
    \A e \in DOMAIN archive :
      LET asked == SelectSeq(archive[e].path, LAMBDA part : part # ".")
      IN archive[e].typeflag = "file" => my_getattr(asked) # [errno |-> "ENOENT"]
=============================================================================
