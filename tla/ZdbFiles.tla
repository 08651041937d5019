------------------------------ MODULE ZdbFiles ------------------------------
(***************************************************************************)
(* The files of 0-db that Quantum Storage backs up, and which of them are  *)
(* eligible for upload (internal/util/zdb.go).                             *)
(*                                                                         *)
(* 0-db is an append-only database.  Each namespace has a directory of     *)
(* numbered data segments (data/<ns>/d0, d1, ...) and a directory of       *)
(* numbered index segments (index/<ns>/i0, i1, ...) that also holds the    *)
(* file zdb-namespace.  The highest segment of a directory is the active   *)
(* one: 0-db appends to it, and it is never eligible.  A closed data       *)
(* segment is immutable; a closed index segment may still change, because  *)
(* deleting a key marks its entry in place.                                *)
(*                                                                         *)
(* A file is the pair <<directory, number>>, or <<directory, NsFile>>.     *)
(***************************************************************************)
EXTENDS Integers

CONSTANTS
    DataDirs,       \* the directories data/zdbfs-data, data/zdbfs-meta
    IndexDirs,      \* the directories index/zdbfs-data, index/zdbfs-meta
    MaxNum,         \* bound: the highest segment number 0-db reaches
    NsFile          \* the name zdb-namespace

Nums == 0..MaxNum

ASSUME ZdbFilesAssumption ==
    /\ DataDirs \cap IndexDirs = {}
    /\ MaxNum \in Nat
    /\ NsFile \notin Nums

Dirs == DataDirs \cup IndexDirs
Segments == Dirs \X Nums
NamespaceFiles == IndexDirs \X {NsFile}
Files == Segments \cup NamespaceFiles
DataFiles == DataDirs \X Nums

\* The segments of f's directory numbered above f.
Above(f) == {g \in Segments : g[1] = f[1] /\ g[2] > f[2]}

\* Mutant: the highest segment, which 0-db still writes, counts as closed.
BelowHighestOffByOne(present) ==
    {f \in Segments : f \in present \/ Above(f) \cap present # {}}

\* All numbers from 0 to highestNum-1, whether or not the file is on disk.
BelowHighest(present) == {f \in Segments : Above(f) \cap present # {}}

\* GetEligibleZdbFiles: what the scan of the directories lists when the
\* files of the set present are on disk.
Eligible(present) ==
    BelowHighest(present)
        \cup {f \in NamespaceFiles : \E g \in present : g[1] = f[1]}
=============================================================================
