-------------------------- MODULE DirectoryDatabase --------------------------
(***************************************************************************)
(* DirectoryBasedExampleDatabase (database.py): a directory for every key  *)
(* and a file for every value, shared without locks by the processes that  *)
(* run tests.  The metakey lists the keys that have values, and is a       *)
(* directory like the others.                                              *)
(*                                                                         *)
(* A step is one call of the file system.  stack[p] is what process p has  *)
(* still to do: save, delete and move call each other, so an operation is  *)
(* a sequence of frames, the one being executed first.  A process may die  *)
(* between any two steps.                                                  *)
(***************************************************************************)
EXTENDS Integers, Sequences, FiniteSets

CONSTANTS
  Procs,        \* processes (or threads) that use the directory
  Keys,         \* the keys of the tests
  Values,       \* the values saved under them
  Meta,         \* _metakeys_name
  Owners,       \* for each key, which processes may use it: the cases explored
  CrossDevice   \* whether the temporary directory may be on another device

DatabaseConstants ==
  /\ Meta \notin Keys /\ IsFiniteSet(Procs)
  /\ Owners \subseteq [Keys -> SUBSET Procs]
  /\ CrossDevice \subseteq BOOLEAN

VARIABLES
  dirs,         \* the keys whose directory exists
  files,        \* <<key, value>>: the files that exist
  torn,         \* those that were created but not yet written
  handles,      \* <<process, file>>: open for writing, while it is that file
  stack,        \* what each process has still to do
  owner,        \* the case explored: who uses which key
  exdev,        \* and whether a rename from the temporary directory fails
  pending,      \* history: <<process, file>> its operation will have saved
  kept          \* history: sets of files of which one must exist

vars == <<dirs, files, torn, handles, stack, owner, exdev, pending, kept>>
fs == <<dirs, files, torn, handles>>
history == <<pending, kept>>
given == <<owner, exdev>>

\* The values of the metakey are keys.
ValuesOf(k) == IF k = Meta THEN Keys ELSE Values
Files == UNION {{k} \X ValuesOf(k) : k \in Keys \cup {Meta}}

\* The frames of the three operations, each with the call it makes next.
Save(k, v)    == [op |-> "save", key |-> k, value |-> v, at |-> "mkdir"]
Delete(k, v)  == [op |-> "delete", key |-> k, value |-> v, at |-> "unlink"]
Move(s, d, v) == [op |-> "move", src |-> s, key |-> d, value |-> v, at |-> "check"]

\* save(key, value) first saves the key under the metakey.
SaveListed(k, v) == <<Save(Meta, k), Save(k, v)>>

Top(p) == Head(stack[p])
TopFile(p) == <<Top(p).key, Top(p).value>>
At(p, op, at) == stack[p] # <<>> /\ Top(p).op = op /\ Top(p).at = at

\* The frames that replace the current one of p.
Instead(p, frames) == stack' = [stack EXCEPT ![p] = frames \o Tail(@)]
GoOn(p, at) == Instead(p, <<[Top(p) EXCEPT !.at = at]>>)

Empty(k) == \A f \in files : f[1] # k

-----------------------------------------------------------------------------
\* History: what the processes were promised.

\* A process is removing file f.
BeingRemoved(f) ==
  \E q \in Procs : \E i \in DOMAIN stack[q] :
    LET x == stack[q][i] IN
    \/ x.op = "delete" /\ f = <<x.key, x.value>>
    \/ x.op = "move" /\ f = <<x.src, x.value>>

Promising(p, f) == IF BeingRemoved(f) THEN {} ELSE {<<p, f>>}

\* The operation of p on f returns when its last frame does.
Return(p) ==
  /\ Instead(p, <<>>)
  /\ IF Len(stack[p]) = 1
     THEN LET mine == {x \in pending : x[1] = p} IN
          /\ pending' = pending \ mine
          /\ kept' = {c \in kept : \A x \in mine : x[2] \notin c}
                       \cup {{x[2]} : x \in mine}
     ELSE UNCHANGED history

-----------------------------------------------------------------------------
\* The operations begin.

Uses(p, k) == stack[p] = <<>> /\ p \in owner[k]

StartSave(p, k, v) ==
  /\ Uses(p, k)
  /\ stack' = [stack EXCEPT ![p] = SaveListed(k, v)]
  /\ pending' = pending \cup Promising(p, <<k, v>>)
  /\ UNCHANGED <<fs, given, kept>>

StartDelete(p, k, v) ==
  /\ Uses(p, k)
  /\ stack' = [stack EXCEPT ![p] = <<Delete(k, v)>>]
  /\ pending' = {x \in pending : x[2] # <<k, v>>}
  /\ kept' = {c \in kept : <<k, v>> \notin c}
  /\ UNCHANGED <<fs, given>>

\* A move from a key to itself only saves: StartSave.
StartMove(p, s, d, v) ==
  /\ s # d /\ Uses(p, s) /\ Uses(p, d)
  /\ stack' = [stack EXCEPT ![p] = <<Move(s, d, v)>>]
  /\ pending' = {x \in pending : x[2] # <<s, v>>} \cup Promising(p, <<d, v>>)
  /\ kept' = {IF <<s, v>> \in c THEN c \cup {<<d, v>>} ELSE c : c \in kept}
  /\ UNCHANGED <<fs, given>>

-----------------------------------------------------------------------------
\* save

\* key_path.mkdir(exist_ok=True, parents=True)
SaveMkdir(p) ==
  /\ At(p, "save", "mkdir")
  /\ dirs' = dirs \cup {Top(p).key}
  /\ GoOn(p, "exists")
  /\ UNCHANGED <<files, torn, handles, given, history>>

\* if not path.exists(): the value is written to a temporary file of its own.
SaveExists(p) ==
  /\ At(p, "save", "exists")
  /\ IF TopFile(p) \in files THEN Return(p)
                             ELSE GoOn(p, "rename") /\ UNCHANGED history
  /\ UNCHANGED <<fs, given>>

\* tmppath.rename(path): a directory that is gone again loses the value, since
\* every OSError is passed over.
SaveRename(p) ==
  /\ At(p, "save", "rename")
  /\ ~(exdev /\ Top(p).key \in dirs)
  /\ files' = IF Top(p).key \in dirs THEN files \cup {TopFile(p)} ELSE files
  /\ torn' = torn \ {TopFile(p)}
  /\ handles' = {h \in handles : h[2] # TopFile(p)}
  /\ Return(p)
  /\ UNCHANGED <<dirs, given>>

\* EXDEV: path.write_bytes creates or truncates the file first...
SaveCreate(p) ==
  /\ At(p, "save", "rename")
  /\ exdev /\ Top(p).key \in dirs
  /\ files' = files \cup {TopFile(p)}
  /\ torn' = torn \cup {TopFile(p)}
  /\ handles' = handles \cup {<<p, TopFile(p)>>}
  /\ GoOn(p, "fill")
  /\ UNCHANGED <<dirs, given, history>>

\* ... and then writes to it, wherever it is by now.
SaveFill(p) ==
  /\ At(p, "save", "fill")
  /\ torn' = torn \ {h[2] : h \in {x \in handles : x[1] = p}}
  /\ handles' = {h \in handles : h[1] # p}
  /\ Return(p)
  /\ UNCHANGED <<dirs, files, given>>

-----------------------------------------------------------------------------
\* delete

\* The file is unlinked, or was not there.
DeleteUnlink(p) ==
  /\ At(p, "delete", "unlink")
  /\ IF TopFile(p) \in files
     THEN /\ files' = files \ {TopFile(p)}
          /\ torn' = torn \ {TopFile(p)}
          /\ handles' = {h \in handles : h[2] # TopFile(p)}
          /\ GoOn(p, "rmdir")
          /\ UNCHANGED history
     ELSE Return(p) /\ UNCHANGED <<files, torn, handles>>
  /\ UNCHANGED <<dirs, given>>

\* Mutant: the key is taken off the list though it still has values.
DeleteRmdirAlways(p) ==
  /\ At(p, "delete", "rmdir")
  /\ dirs' = IF Empty(Top(p).key) THEN dirs \ {Top(p).key} ELSE dirs
  /\ Instead(p, <<Delete(Meta, Top(p).key)>>)
  /\ UNCHANGED <<files, torn, handles, given, history>>

\* The directory goes with its last value, and then its key from the metakey.
DeleteRmdir(p) ==
  /\ At(p, "delete", "rmdir")
  /\ LET k == Top(p).key IN
     IF k \in dirs /\ Empty(k)
     THEN /\ dirs' = dirs \ {k}
          /\ Instead(p, <<Delete(Meta, k)>>)
          /\ UNCHANGED history
     ELSE Return(p) /\ UNCHANGED dirs
  /\ UNCHANGED <<files, torn, handles, given>>

-----------------------------------------------------------------------------
\* move

\* A destination without a directory is listed under the metakey.
MoveCheck(p) ==
  /\ At(p, "move", "check")
  /\ LET rest == <<[Top(p) EXCEPT !.at = "look"]>> IN
     Instead(p, IF Top(p).key \in dirs THEN rest
                ELSE <<Save(Meta, Top(p).key)>> \o rest)
  /\ UNCHANGED <<fs, given, history>>

\* os.renames: does the directory of the destination exist?
MoveLook(p) ==
  /\ At(p, "move", "look")
  /\ GoOn(p, IF Top(p).key \in dirs THEN "rename" ELSE "makedirs")
  /\ UNCHANGED <<fs, given, history>>

\* except OSError: self.delete(src, value); self.save(dest, value)
DeleteAndSave(p) ==
  LET x == Top(p) IN
  /\ Instead(p, <<Delete(x.src, x.value)>> \o SaveListed(x.key, x.value))
  /\ UNCHANGED history

\* os.makedirs, which fails when the directory exists by now.
MoveMakedirs(p) ==
  /\ At(p, "move", "makedirs")
  /\ dirs' = dirs \cup {Top(p).key}
  /\ IF Top(p).key \in dirs THEN DeleteAndSave(p)
                            ELSE GoOn(p, "rename") /\ UNCHANGED history
  /\ UNCHANGED <<files, torn, handles, given>>

\* Mutant: a move that deletes first, as ExampleDatabase.move does.
MoveRenameDeletes(p) ==
  /\ At(p, "move", "rename")
  /\ DeleteAndSave(p)
  /\ UNCHANGED <<fs, given>>

\* os.rename: the file takes its unfinished writers with it.
MoveRename(p) ==
  /\ At(p, "move", "rename")
  /\ LET from == <<Top(p).src, Top(p).value>>
         to   == TopFile(p)
         At_(f) == IF f = from THEN to ELSE f
     IN IF from \in files /\ Top(p).key \in dirs
        THEN /\ files' = {At_(f) : f \in files}
             /\ torn' = {At_(f) : f \in torn \ {to}}
             /\ handles' = {<<h[1], At_(h[2])>> : h \in {x \in handles : x[2] # to}}
             /\ GoOn(p, "prune")
             /\ UNCHANGED history
        ELSE DeleteAndSave(p) /\ UNCHANGED <<files, torn, handles>>
  /\ UNCHANGED <<dirs, given>>

\* Mutant: the directory of the source goes with the values left in it.
MovePruneAlways(p) ==
  /\ At(p, "move", "prune")
  /\ dirs' = dirs \ {Top(p).src}
  /\ Return(p)
  /\ UNCHANGED <<files, torn, handles, given>>

\* os.removedirs of the source, if nothing is left in it.  The source stays
\* listed under the metakey.
MovePrune(p) ==
  /\ At(p, "move", "prune")
  /\ dirs' = IF Empty(Top(p).src) THEN dirs \ {Top(p).src} ELSE dirs
  /\ Return(p)
  /\ UNCHANGED <<files, torn, handles, given>>

-----------------------------------------------------------------------------
\* The process dies and another one takes its place.
Crash(p) ==
  /\ stack[p] # <<>>
  /\ stack' = [stack EXCEPT ![p] = <<>>]
  /\ handles' = {h \in handles : h[1] # p}
  /\ pending' = {x \in pending : x[1] # p}
  /\ UNCHANGED <<dirs, files, torn, given, kept>>

Init ==
  /\ dirs = {} /\ files = {} /\ torn = {} /\ handles = {}
  /\ stack = [p \in Procs |-> <<>>]
  /\ owner \in Owners
  /\ exdev \in CrossDevice
  /\ pending = {} /\ kept = {}

Next == \E p \in Procs :
  \/ \E k \in Keys, v \in Values : StartSave(p, k, v) \/ StartDelete(p, k, v)
  \/ \E s, d \in Keys, v \in Values : StartMove(p, s, d, v)
  \/ SaveMkdir(p) \/ SaveExists(p) \/ SaveRename(p) \/ SaveCreate(p) \/ SaveFill(p)
  \/ DeleteUnlink(p) \/ DeleteRmdir(p)
  \/ MoveCheck(p) \/ MoveLook(p) \/ MoveMakedirs(p) \/ MoveRename(p) \/ MovePrune(p)
  \/ Crash(p)

Spec == Init /\ [][Next]_vars

-----------------------------------------------------------------------------
\* Files are in directories that exist, and who writes to one has it open.
TypeOK ==
  /\ dirs \subseteq Keys \cup {Meta}
  /\ files \subseteq Files
  /\ \A f \in files : f[1] \in dirs
  /\ torn \subseteq files
  /\ \A h \in handles : At(h[1], "save", "fill") /\ h[2] \in files
  /\ \A c \in kept : c \subseteq Files /\ c # {}

\* What was saved is still there, entirely.
Stands(c) == c \cap (files \ torn) # {}

\* "Save value under key": what a process saved or moved under a key stays there
\* until somebody asks for it to be deleted, and a move cut off by a crash leaves
\* the value under one of its two keys.  Two processes that share a key break
\* this: one deletes the last other value, and with it the directory, between the
\* mkdir and the rename of the other's save, which passes over the OSError.
SavesStick == ~exdev => \A c \in kept : Stands(c)

\* It holds for keys that only one process uses, though they share the metakey
\* and the directory around them with everybody.
OwnSavesStick ==
  ~exdev => \A c \in kept :
    (\A f \in c : Cardinality(owner[f[1]]) = 1) => Stands(c)

=============================================================================
