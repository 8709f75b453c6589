----------------------------- MODULE Namespace -----------------------------
(***************************************************************************)
(* The directory tree as colonyfs_fusexx keeps it: every path has an       *)
(* attribute of its own in the metadata sink, and the attribute of a       *)
(* directory lists the names in it.  The two are edited separately.        *)
(*                                                                         *)
(* A file system call is one step: the kernel locks the directories it     *)
(* changes, and libfuse runs unlink, rmdir and rename alone.  The kernel   *)
(* has also looked up the paths of a call, and refuses what it can see to  *)
(* be wrong.  These conditions are the operators under "kernel".  The      *)
(* dht_task of a flush takes none of these locks: other calls come between *)
(* the moment it serialises an attribute and the moment the DHT has it.    *)
(***************************************************************************)
EXTENDS Naturals

CONSTANTS Paths,      \* the paths of the file system
          Root,       \* the path "/"
          Parent,     \* parent_path(), for every path but Root
          Leaf,       \* filename()
          Above,      \* the paths above a path
          Names,
          Users,
          Daemon,     \* getuid() of the process
          Superuser,  \* user id 0
          Missing,    \* no attribute
          MaxOps      \* bound on the calls made

Inner == Paths \ {Root}

ASSUME NamespaceAssumption ==
  /\ Root \in Paths
  /\ Parent \in [Inner -> Paths]
  /\ Leaf \in [Inner -> Names]
  /\ \A p, q \in Inner : Parent[p] = Parent[q] /\ Leaf[p] = Leaf[q] => p = q
  /\ Above \in [Paths -> SUBSET Paths]
  /\ \A p \in Inner : Parent[p] # p /\ Parent[p] \in Above[p]
  /\ Daemon \in Users /\ Superuser \in Users
  /\ MaxOps \in Nat

VARIABLES attr,       \* the attribute the sink has for a path
          stored,     \* what of it the DHT has
          broken,     \* the end of a list was erased: anything may follow
          flights,    \* attributes serialised by a dht_task, not stored yet
          loose,      \* history: directories whose listing is not kept exact
          raced,      \* history: paths purged while a flush of them was in flight
          ops         \* number of calls made

vars == <<attr, stored, broken, flights, loose, raced, ops>>

(***************************************************************************)
(* An attribute.  list is the std::list of names, by their number of       *)
(* occurrences: only readdir shows the order.  linked is st_nlink # 0.     *)
(***************************************************************************)
NoNames == [n \in Names |-> 0]
Attribute == [kind : {"dir", "file", "link"}, linked : BOOLEAN, uid : Users, list : [Names -> Nat]]

ASSUME MissingAssumption == Missing \notin Attribute

New(kind, linked, uid) == [kind |-> kind, linked |-> linked, uid |-> uid, list |-> NoNames]

IsDir(p)   == attr[p] # Missing /\ attr[p].kind = "dir"
Exists(p)  == attr[p] # Missing
Children(d) == {p \in Inner : Parent[p] = d /\ Exists(p)}

-----------------------------------------------------------------------------
(***************************************************************************)
(* Kernel: what holds of the paths of a call when it reaches the daemon.   *)
(***************************************************************************)
Resolves(p) == p \in Inner /\ \A d \in Above[p] : IsDir(d)

MayCreate(p) == Resolves(p) /\ ~Exists(p)
MayRemove(p) == Resolves(p) /\ Exists(p)
MayRename(p, q) ==
  /\ MayRemove(p) /\ Resolves(q)
  /\ p # q /\ p \notin Above[q] /\ q \notin Above[p]
  /\ Exists(q) => (IsDir(p) <=> IsDir(q))

Call == ~broken /\ ops < MaxOps /\ ops' = ops + 1

-----------------------------------------------------------------------------
\* list.push_back, list.erase (one occurrence), list.remove (all of them).
Push(a, n)  == [a EXCEPT !.list[n] = @ + 1]
Erase(a, n) == [a EXCEPT !.list[n] = @ - 1]

\* Mutant of Strike: erase(find(...)) in the place of remove.
StrikeOne(a, n) == [a EXCEPT !.list[n] = @ - 1]

Strike(a, n) == [a EXCEPT !.list[n] = 0]

\* Mutant of Register: the parent lists the name only if it had no other.
RegisterFirst(p, a) ==
  attr' = [attr EXCEPT ![p] = a,
                       ![Parent[p]] = IF @.list = NoNames THEN Push(@, Leaf[p]) ELSE @]

\* The attribute of a new path is set, and its parent lists it.
Register(p, a) == attr' = [attr EXCEPT ![p] = a, ![Parent[p]] = Push(@, Leaf[p])]

\* Mutant of Create: st_nlink is not set either.
CreateUnlinked(p) ==
  /\ Call /\ MayCreate(p)
  /\ Register(p, New("file", FALSE, Daemon))
  /\ UNCHANGED <<stored, broken, flights, loose, raced>>

Create(p) ==
  /\ Call /\ MayCreate(p)
  /\ Register(p, New("file", TRUE, Daemon))
  /\ UNCHANGED <<stored, broken, flights, loose, raced>>

Mkdir(p) ==
  /\ Call /\ MayCreate(p)
  /\ Register(p, New("dir", TRUE, Daemon))
  /\ UNCHANGED <<stored, broken, flights, loose, raced>>

\* Neither st_nlink nor st_uid is set; fattribute() has zeroed them.  The
\* target, kept in the list of the link, is left out.
Symlink(p) ==
  /\ Call /\ MayCreate(p)
  /\ Register(p, New("link", FALSE, Superuser))
  /\ UNCHANGED <<stored, broken, flights, loose, raced>>

\* The root keeps its owner: nothing looks at it.
Chown(p, uid) ==
  /\ Call /\ MayRemove(p)
  /\ attr' = [attr EXCEPT ![p].uid = uid]
  /\ UNCHANGED <<stored, broken, flights, loose, raced>>

\* Mutant of Purge: the DHT keeps the attribute.
PurgeCached(p) == UNCHANGED <<stored, raced, flights>>

\* metadata_sink_.purge: the DHT forgets the attribute, too.
Purge(p) ==
  /\ stored' = [stored EXCEPT ![p] = Missing]
  /\ raced' = raced \cup {f.path : f \in {g \in flights : g.path = p}}
  /\ UNCHANGED flights

Unlink(p) ==
  /\ Call /\ MayRemove(p) /\ ~IsDir(p)
  /\ attr[p].uid = Daemon \/ Daemon = Superuser
  /\ attr' = [attr EXCEPT ![p] = Missing, ![Parent[p]] = Strike(@, Leaf[p])]
  /\ Purge(p)
  /\ UNCHANGED <<broken, loose>>

\* EACCES.
UnlinkDenied(p) ==
  /\ Call /\ MayRemove(p) /\ ~IsDir(p)
  /\ attr[p].uid # Daemon /\ Daemon # Superuser
  /\ UNCHANGED <<attr, stored, broken, flights, loose, raced>>

\* Nothing looks whether the directory is empty.
Rmdir(p) ==
  /\ Call /\ MayRemove(p) /\ IsDir(p)
  /\ attr' = [attr EXCEPT ![p] = Missing, ![Parent[p]] = Strike(@, Leaf[p])]
  /\ Purge(p)
  /\ loose' = IF Children(p) = {} THEN loose ELSE loose \cup {p}
  /\ UNCHANGED broken

(***************************************************************************)
(* rename: the attribute moves, with the list in it; the children of a     *)
(* directory keep their old paths, and an entry the target had stays.      *)
(***************************************************************************)
Moved(p, q) ==
  LET erased == [attr EXCEPT ![Parent[p]] = Erase(@, Leaf[p])]
      pushed == [erased EXCEPT ![Parent[q]] = Push(@, Leaf[q])]
  IN  [pushed EXCEPT ![q] = pushed[p], ![p] = Missing]

Loosened(p, q) ==
  (IF Exists(q) THEN {Parent[q]} ELSE {}) \cup
  (IF p \in loose \/ Children(p) \cup Children(q) # {} THEN {p, q} ELSE {})

Rename(p, q) ==
  /\ Call /\ MayRename(p, q)
  /\ attr[Parent[p]].list[Leaf[p]] > 0
  /\ attr' = Moved(p, q)
  /\ Purge(p)
  /\ loose' = loose \cup Loosened(p, q)
  /\ UNCHANGED broken

\* std::find returns end(), which is erased all the same.
RenameUnlisted(p, q) ==
  /\ Call /\ MayRename(p, q)
  /\ attr[Parent[p]].list[Leaf[p]] = 0
  /\ broken' = TRUE
  /\ UNCHANGED <<attr, stored, flights, loose, raced>>

-----------------------------------------------------------------------------
\* A file is flushed when it is closed; directories and links never are.
\* Its dht_task serialises the attribute it finds ...
Serialise(p) ==
  /\ Call /\ MayRemove(p) /\ attr[p].kind = "file"
  /\ flights' = flights \cup {[path |-> p, value |-> attr[p]]}
  /\ UNCHANGED <<attr, stored, broken, loose, raced>>

\* ... and puts it into the DHT.
Store(f) ==
  /\ ~broken
  /\ stored' = [stored EXCEPT ![f.path] = f.value]
  /\ flights' = flights \ {f}
  /\ UNCHANGED <<attr, broken, loose, raced, ops>>

\* The process ends and the file system is mounted again: the constructor
\* makes an empty root directory (resume is false).
Remount ==
  /\ ops < MaxOps /\ ops' = ops + 1
  /\ attr' = [stored EXCEPT ![Root] = New("dir", TRUE, Superuser)]
  /\ broken' = FALSE
  /\ loose' = {Parent[p] : p \in {i \in Inner : stored[i] # Missing}}
  /\ flights' = {} /\ raced' = {}
  /\ UNCHANGED stored

-----------------------------------------------------------------------------
Init ==
  /\ attr = [p \in Paths |-> IF p = Root THEN New("dir", TRUE, Superuser) ELSE Missing]
  /\ stored = [p \in Paths |-> Missing]
  /\ broken = FALSE
  /\ flights = {}
  /\ loose = {}
  /\ raced = {}
  /\ ops = 0

Next ==
  \/ \E p \in Inner :
       \/ Create(p) \/ Mkdir(p) \/ Symlink(p)
       \/ \E u \in Users : Chown(p, u)
       \/ Unlink(p) \/ UnlinkDenied(p) \/ Rmdir(p)
       \/ \E q \in Inner : Rename(p, q) \/ RenameUnlisted(p, q)
       \/ Serialise(p)
  \/ \E f \in flights : Store(f)
  \/ Remount

Spec == Init /\ [][Next]_vars

-----------------------------------------------------------------------------
TypeOK ==
  /\ attr \in [Paths -> Attribute \cup {Missing}]
  /\ stored \in [Paths -> Attribute \cup {Missing}]
  /\ broken \in BOOLEAN
  /\ flights \subseteq [path : Inner, value : Attribute]
  /\ loose \subseteq Paths
  /\ raced \subseteq Inner
  /\ ops \in 0..MaxOps

(***************************************************************************)
(* The list of a directory and the attributes of the paths below it agree, *)
(* although no call looks at both: every name is listed once if the path   *)
(* has an attribute, and not at all if it has none; and what is not a      *)
(* directory has nothing below it.  The exceptions, kept in loose, are     *)
(* what rmdir leaves of a directory that was not empty, both ends of the   *)
(* rename of one, a directory in which a rename replaced an entry, and     *)
(* the leftovers of an earlier mount.                                      *)
(***************************************************************************)
ListingExact ==
  \A p \in Inner : Parent[p] \notin loose =>
    /\ Exists(p) => IsDir(Parent[p])
    /\ IsDir(Parent[p]) =>
         attr[Parent[p]].list[Leaf[p]] = IF Exists(p) THEN 1 ELSE 0

(***************************************************************************)
(* A name that was removed or renamed away does not come back with the     *)
(* next mount, unless a dht_task was writing its attribute meanwhile: what *)
(* the DHT stores exists.                                                  *)
(***************************************************************************)
StoredExists == \A p \in Inner \ raced : stored[p] # Missing => Exists(p)

(***************************************************************************)
(* getattr asserts that "the returned attribute is valid", st_nlink # 0    *)
(* (colonyfs_fusexx.cpp:253-256).  symlink never sets it, and the          *)
(* assertion fails for every link; it cannot fail for anything else,       *)
(* however often it was moved, flushed or mounted again.                   *)
(***************************************************************************)
OnlyLinksInvalid == \A p \in Paths : Exists(p) /\ ~attr[p].linked => attr[p].kind = "link"

(***************************************************************************)
(* What makes these inductive: a list names paths below its directory only,*)
(* no directory is stored or about to be, and what is about to be exists.  *)
(***************************************************************************)
ListedExist ==
  \A d \in Paths \ loose : IsDir(d) =>
    \A n \in Names : attr[d].list[n] > 0 => \E p \in Children(d) : Leaf[p] = n

DirectoriesUnstored == \A p \in Paths : stored[p] # Missing => stored[p].kind # "dir" /\ p # Root

FlightsExist == \A f \in flights : f.value.kind # "dir" /\ (f.path \notin raced => Exists(f.path))

\* What makes OnlyLinksInvalid inductive: so is what a mount or a task brings.
LinkInv ==
  /\ OnlyLinksInvalid
  /\ \A p \in Paths : stored[p] # Missing /\ ~stored[p].linked => stored[p].kind = "link"
  /\ \A f \in flights : ~f.value.linked => f.value.kind = "link"

TreeInv == ListingExact /\ ListedExist /\ DirectoriesUnstored /\ StoredExists /\ FlightsExist

=============================================================================
