------------------------------- MODULE Fs -------------------------------
(***************************************************************************)
(* The file system above the log: inodes and their cache (fs.c), the file  *)
(* table (file.c) and the system calls over them (sysfile.c), run by       *)
(* several processes at once.                                              *)
(*                                                                         *)
(* A process's position in the kernel is a stack of pending steps, todo.   *)
(* A step is what happens under one holding of icache.lock or of inode     *)
(* locks; the sections that only touch a locked inode are one step.  The   *)
(* content of a directory is a function from names to inode numbers, of a  *)
(* file the blocks it owns; sizes and offsets count blocks.                *)
(***************************************************************************)
EXTENDS Naturals, FiniteSets, Sequences, SequencesExt

CONSTANTS Procs,     \* processes
          NINODE,    \* entries of the inode cache
          NInodes,   \* inodes on disk
          NBlocks,   \* data blocks on disk
          NFILE,     \* entries of the file table
          NOFILE,    \* descriptors of a process
          NDIRECT,   \* blocks of a file found without the indirect block
          MAXFILE,   \* largest file, in blocks
          Names,     \* file names
          Menu,      \* system calls that take a path: [op, path] and, for link, new
          MaxCalls   \* bound: system calls in a behaviour

Inums == 1..NInodes
Slots == 1..NINODE
Files == 1..NFILE
Blocks == 1..NBlocks
Dots == {".", ".."}
Root == 1
NoDir == [n \in Names \cup Dots |-> 0]
FreeInode == [type |-> "free", nlink |-> 0, addrs |-> <<>>, indirect |-> 0]
NewInode(t, n, a) == [FreeInode EXCEPT !.type = t, !.nlink = n, !.addrs = a]

VARIABLES dinode,  \* the inodes on disk
          data,    \* what the blocks of a directory hold
          bitmap,  \* the blocks in use
          icache,  \* the inode cache
          ftable,  \* the file table
          pipes,   \* the open ends of pipes: <<pipe, whether it is the end for writing>>
          proc,    \* per process: pending steps, inodes in hand, cwd, ofile
          panic,   \* why the kernel has halted, or "no"
          odd      \* history: which of three rare things have happened:
                   \*   "reused": ialloc's inode was still in the cache,
                   \*   "removed": an entry was made in a removed directory,
                   \*   "dotdot": a path left a removed directory through ".."

vars == <<dinode, data, bitmap, icache, ftable, pipes, proc, panic, odd>>

Dir(i, parent) == [NoDir EXCEPT !["."] = i, ![".."] = parent]
ClosedFile == [type |-> "none", ref |-> 0, ip |-> 0, pipe |-> 0, off |-> 0, writable |-> FALSE]

\* The disk mkfs leaves with a directory d made since, and either a file a
\* beside it or a directory a in it, where one process is at home.
Init ==
  \E deep \in BOOLEAN, home \in SUBSET Procs :
    /\ Cardinality(home) = IF deep THEN 1 ELSE 0
    /\ dinode = [i \in Inums |->
         CASE i = Root -> NewInode("dir", 2, <<1>>)
           [] i = 2 -> NewInode("dir", IF deep THEN 2 ELSE 1, <<2>>)
           [] i = 3 -> IF deep THEN NewInode("dir", 1, <<3>>)
                       ELSE [NewInode("file", 1, <<3, 4>>) EXCEPT !.indirect = 5]
           [] OTHER -> FreeInode]
    /\ data = [i \in Inums |->
         CASE i = Root -> [Dir(1, 1) EXCEPT !["d"] = 2, !["a"] = IF deep THEN 0 ELSE 3]
           [] i = 2 -> [Dir(2, 1) EXCEPT !["a"] = IF deep THEN 3 ELSE 0]
           [] i = 3 /\ deep -> Dir(3, 2)
           [] OTHER -> NoDir]
    /\ bitmap = IF deep THEN {1, 2, 3} ELSE {1, 2, 3, 4, 5}
    /\ icache = [s \in Slots |->
         [inum |-> IF s = 2 THEN 3 ELSE Root, valid |-> FALSE, lock |-> FALSE, ino |-> FreeInode,
          ref |-> CASE s = 1 -> Cardinality(Procs \ home) [] s = 2 -> Cardinality(home) [] OTHER -> 0]]
    /\ ftable = [f \in Files |-> ClosedFile] /\ pipes = {}
    /\ proc = [p \in Procs |-> [todo |-> <<>>, cur |-> 0, ip |-> 0, dp |-> 0,
                                cwd |-> IF p \in home THEN 2 ELSE 1,
                                ofile |-> [d \in 1..NOFILE |-> 0], calls |-> 0]]
    /\ panic = "no" /\ odd = {}

(***************************** the inode cache *****************************)

\* iget finds the entry of inode i, or the first free one; 0 when none is left.
Cached(i) == {s \in Slots : icache[s].ref > 0 /\ icache[s].inum = i}
Unused == {s \in Slots : icache[s].ref = 0}
SlotOf(i) == IF Cached(i) # {} THEN Min(Cached(i)) ELSE IF Unused # {} THEN Min(Unused) ELSE 0

\* Mutant: a hit is not counted.
Iget_hit(c, s, i) ==
  IF Cached(i) # {} THEN c
  ELSE [c EXCEPT ![s].inum = i, ![s].ref = 1, ![s].valid = FALSE]
\* The cache c after iget(i) has returned entry s.
Iget(c, s, i) ==
  IF Cached(i) # {} THEN [c EXCEPT ![s].ref = @ + 1]
  ELSE [c EXCEPT ![s].inum = i, ![s].ref = 1, ![s].valid = FALSE]

\* The cache after idup(s); the inodes on disk after iupdate of inode i from n.
idup(s) == [icache EXCEPT ![s].ref = @ + 1]
iupdate(i, n) == [dinode EXCEPT ![i] = n]

\* ilock: what the entry holds once it has been read from the disk.
Ilock(s) == IF icache[s].valid THEN icache[s].ino ELSE dinode[icache[s].inum]
\* The entry locked with inode n; unlocked again, the lock is free.
Lock(c, s, n) == [c EXCEPT ![s].valid = TRUE, ![s].ino = n, ![s].lock = TRUE]
Visit(c, s, n) == [c EXCEPT ![s].valid = TRUE, ![s].ino = n]
Unlock(c, s) == [c EXCEPT ![s].lock = FALSE]
Free(s) == ~icache[s].lock
NoType(s) == ~icache[s].valid /\ dinode[icache[s].inum].type = "free"

Put(s) == <<"put", s>>
\* A path is the elements skipelem cuts it into, and whether it starts at the root.
skipelem(path) == path.elems
Name(path) == Last(skipelem(path))
Walk(path, parent) == <<"start", path, parent>>
Top(p) == Head(proc[p].todo)
At(p, step) == panic = "no" /\ proc[p].todo # <<>> /\ Top(p)[1] = step
\* The process goes on with the steps st and then with what was pending.
Then(p, st) == [proc[p] EXCEPT !.todo = st \o Tail(@)]
Return(p) == [proc[p] EXCEPT !.todo = <<>>]
Panic(why) ==
  /\ panic' = why
  /\ UNCHANGED <<dinode, data, bitmap, icache, ftable, pipes, proc, odd>>

Memory(c, p, l) ==
  /\ icache' = c /\ proc' = [proc EXCEPT ![p] = l]
  /\ UNCHANGED <<ftable, pipes, panic>>
\* A step that leaves the disk and the file table alone.
Goes(c, p, l) == Memory(c, p, l) /\ UNCHANGED <<dinode, data, bitmap, odd>>

\* ilock waits for the lock and reads the inode; dirlookup wants a directory.
Ilocked(s, A) == Free(s) /\ IF NoType(s) THEN Panic("ilock: no type") ELSE A
InDir(s, A) == Ilocked(s, IF Ilock(s).type # "dir" THEN Panic("dirlookup not DIR") ELSE A)

\* Mutant: an unlinked inode is freed although others still refer to it.
LastUnlinked_held(s) == icache[s].valid /\ icache[s].ino.nlink = 0
LastUnlinked(s) == icache[s].ref = 1 /\ icache[s].valid /\ icache[s].ino.nlink = 0

\* iput, first part: the last reference to an unlinked inode frees it, with
\* icache.lock released meanwhile; any other reference is just dropped.
iput(p) ==
  /\ At(p, "put")
  /\ LET s == Top(p)[2]
         last == LastUnlinked(s)
     IN  Goes(IF last THEN icache ELSE [icache EXCEPT ![s].ref = @ - 1], p,
              Then(p, IF last THEN <<<<"itrunc", s>>>> ELSE <<>>))

\* Mutant: the blocks are freed, the indirect block that lists them is not.
BlocksOf_direct(n) == ToSet(n.addrs)
BlocksOf(n) == ToSet(n.addrs) \cup ({n.indirect} \ {0})

bfree(blocks) == bitmap \ blocks

\* iput, second part: itrunc frees the blocks, iupdate writes type 0.
itrunc(p) ==
  /\ At(p, "itrunc")
  /\ LET s == Top(p)[2]
         i == icache[s].inum
         mine == BlocksOf(icache[s].ino)
     IN  IF ~(mine \subseteq bitmap) THEN Panic("freeing free block")
         ELSE /\ bitmap' = bfree(mine)
              /\ data' = [data EXCEPT ![i] = NoDir]
              /\ dinode' = iupdate(i, FreeInode)
              /\ Memory(Visit(icache, s, FreeInode), p, Then(p, <<<<"forget", s>>>>))
              /\ UNCHANGED odd

\* iput, last part: with icache.lock again, the entry is no longer valid.
iforget(p) ==
  /\ At(p, "forget")
  /\ Goes([icache EXCEPT ![Top(p)[2]].valid = FALSE, ![Top(p)[2]].ref = @ - 1], p, Then(p, <<>>))

(************************ directories and path names ************************)

\* The inode number a name stands for, 0 for none; the entry for i made.
dirlookup(d, name) == data[d][name]
dirlink(d, name, i) == [data EXCEPT ![d][name] = i]

\* namex begins at the root (iget) or at the current directory (idup).
namexStart(p) ==
  /\ At(p, "start")
  /\ LET path == Top(p)[2]
         s == IF path.abs THEN SlotOf(Root) ELSE proc[p].cwd
     IN  IF s = 0 THEN Panic("iget: no inodes")
         ELSE Goes(IF path.abs THEN Iget(icache, s, Root) ELSE idup(s),
                   p, [Then(p, <<<<"walk", skipelem(path), Top(p)[3]>>>>) EXCEPT !.cur = s])

\* namex, one element: lock the directory, look the element up, move on.
\* A failed lookup leaves cur = 0 for the step that asked for the name.
namexStep(p) ==
  /\ At(p, "walk")
  /\ LET elems == Top(p)[2]
         parent == Top(p)[3]
         s == proc[p].cur
         n == Ilock(s)
         next == dirlookup(icache[s].inum, Head(elems))
         t == SlotOf(next)
         fail == [Then(p, <<Put(s)>>) EXCEPT !.cur = 0]
     IN  IF elems = <<>> THEN Goes(icache, p, IF parent THEN fail ELSE Then(p, <<>>))
         ELSE Ilocked(s,
           IF n.type = "dir" /\ parent /\ Len(elems) = 1 THEN Goes(Visit(icache, s, n), p, Then(p, <<>>))
           ELSE IF n.type # "dir" \/ next = 0 THEN Goes(Visit(icache, s, n), p, fail)
           ELSE IF t = 0 THEN Panic("iget: no inodes")
           ELSE /\ Memory(Iget(Visit(icache, s, n), t, next), p,
                          [Then(p, <<Put(s), <<"walk", Tail(elems), parent>>>>) EXCEPT !.cur = t])
                /\ odd' = IF Head(elems) = ".." /\ n.nlink = 0 THEN odd \cup {"dotdot"} ELSE odd
                /\ UNCHANGED <<dinode, data, bitmap>>)

(************************* link, unlink and create *************************)

\* sys_link: the link is counted first ...
link(p) ==
  /\ At(p, "link")
  /\ LET s == proc[p].cur
         n == Ilock(s)
         more == [n EXCEPT !.nlink = @ + 1]
         new == Top(p)[2]
     IN  IF s = 0 THEN Goes(icache, p, Return(p))
         ELSE Ilocked(s,
           IF n.type = "dir" THEN Goes(Visit(icache, s, n), p, [Then(p, <<Put(s)>>) EXCEPT !.cur = 0])
           ELSE /\ dinode' = iupdate(icache[s].inum, more)
                /\ Memory(Visit(icache, s, more), p,
                     [Then(p, <<Walk(new, TRUE), <<"entry", Name(new)>>>>) EXCEPT !.cur = 0, !.ip = s])
                /\ UNCHANGED <<data, bitmap, odd>>)

\* ... then entered in the directory (dirlink), unless the name is taken ...
linkEntry(p) ==
  /\ At(p, "entry")
  /\ LET s == proc[p].cur
         ip == proc[p].ip
         n == Ilock(s)
         name == Top(p)[2]
         d == icache[s].inum
         undo == <<<<"unlinked">>>>
     IN  IF s = 0 THEN Goes(icache, p, Then(p, undo))
         ELSE InDir(s,
           IF dirlookup(d, name) # 0 /\ SlotOf(dirlookup(d, name)) = 0 THEN Panic("iget: no inodes")
           ELSE IF dirlookup(d, name) # 0
           THEN Goes(Visit(icache, s, n), p, [Then(p, <<Put(s)>> \o undo) EXCEPT !.cur = 0])
           ELSE /\ data' = dirlink(d, name, icache[ip].inum)
                /\ odd' = IF n.nlink = 0 THEN odd \cup {"removed"} ELSE odd
                /\ Memory(Visit(icache, s, n), p,
                          [Then(p, <<Put(s), Put(ip)>>) EXCEPT !.cur = 0, !.ip = 0])
                /\ UNCHANGED <<dinode, bitmap>>)

\* ... and the count is taken back when that failed (label bad).
linkUndo(p) ==
  /\ At(p, "unlinked")
  /\ LET s == proc[p].ip
         less == [Ilock(s) EXCEPT !.nlink = @ - 1]
     IN  Ilocked(s, /\ dinode' = iupdate(icache[s].inum, less)
                    /\ Memory(Visit(icache, s, less), p, [Then(p, <<Put(s)>>) EXCEPT !.ip = 0])
                    /\ UNCHANGED <<data, bitmap, odd>>)

\* sys_unlink: lock the directory and look the entry up; the lock is kept.
unlink(p) ==
  /\ At(p, "unlink")
  /\ LET s == proc[p].cur
         n == Ilock(s)
         name == Top(p)[2]
         i == dirlookup(icache[s].inum, name)
         t == SlotOf(i)
     IN  IF s = 0 THEN Goes(icache, p, Return(p))
         ELSE InDir(s,
           IF name \in Dots \/ i = 0
           THEN Goes(Visit(icache, s, n), p, [Then(p, <<Put(s)>>) EXCEPT !.cur = 0])
           ELSE IF t = 0 THEN Panic("iget: no inodes")
           ELSE Goes(Iget(Lock(icache, s, n), t, i), p,
                     [Then(p, <<<<"erase", name>>>>) EXCEPT !.cur = 0, !.dp = s, !.ip = t]))

\* Mutant: a directory is always taken to be empty.
isdirempty_blind(i) == data[i]["."] = i
isdirempty(i) == \A n \in Names : data[i][n] = 0

\* sys_unlink, with both locks: the entry goes, and a directory's ".." with it.
unlinkErase(p) ==
  /\ At(p, "erase")
  /\ LET s == proc[p].ip
         n == Ilock(s)
         dp == proc[p].dp
         d == icache[dp].ino
         less == IF n.type = "dir" THEN [d EXCEPT !.nlink = @ - 1] ELSE d
     IN  Ilocked(s,
           IF n.nlink < 1 THEN Panic("unlink: nlink < 1")
           ELSE IF n.type = "dir" /\ ~isdirempty(icache[s].inum)
           THEN Goes(Unlock(Visit(icache, s, n), dp), p,
                     [Then(p, <<Put(s), Put(dp)>>) EXCEPT !.ip = 0, !.dp = 0])
           ELSE /\ data' = dirlink(icache[dp].inum, Top(p)[2], 0)
                /\ dinode' = iupdate(icache[dp].inum, less)
                /\ Memory(Unlock(Visit(Lock(icache, s, n), dp, less), dp), p,
                          [Then(p, <<Put(dp), <<"drop">>>>) EXCEPT !.dp = 0])
                /\ UNCHANGED <<bitmap, odd>>)

\* sys_unlink, the directory released: the link count follows.
unlinkDrop(p) ==
  /\ At(p, "drop")
  /\ LET s == proc[p].ip
         less == [icache[s].ino EXCEPT !.nlink = @ - 1]
     IN  /\ dinode' = iupdate(icache[s].inum, less)
         /\ Memory(Unlock(Visit(icache, s, less), s), p, [Then(p, <<Put(s)>>) EXCEPT !.ip = 0])
         /\ UNCHANGED <<data, bitmap, odd>>

\* create: lock the directory; a name that exists is opened (create, part two),
\* otherwise the lock is kept while an inode is allocated.
create(p) ==
  /\ At(p, "create")
  /\ LET s == proc[p].cur
         n == Ilock(s)
         i == dirlookup(icache[s].inum, Top(p)[2])
         t == SlotOf(i)
     IN  IF s = 0 THEN Goes(icache, p, Return(p))
         ELSE InDir(s,
           IF i = 0 THEN Goes(Lock(icache, s, n), p,
                              [Then(p, <<<<"ialloc", Top(p)[2], Top(p)[3]>>>>) EXCEPT !.cur = 0, !.dp = s])
           ELSE IF t = 0 THEN Panic("iget: no inodes")
           ELSE Goes(Iget(Visit(icache, s, n), t, i), p,
                     [Then(p, <<Put(s), <<"exists", Top(p)[3]>>>>) EXCEPT !.cur = 0, !.ip = t]))

createExists(p) ==
  /\ At(p, "exists")
  /\ LET s == proc[p].ip
         n == Ilock(s)
     IN  Ilocked(s, IF Top(p)[2] = "file" /\ n.type = "file"
                    THEN Goes(Lock(icache, s, n), p, Then(p, <<>>))
                    ELSE Goes(Visit(icache, s, n), p, [Return(p) EXCEPT !.ip = 0, !.todo = <<Put(s)>>]))

\* ialloc: the first inode whose type on disk is 0 is marked, then iget.
FreeInums == {i \in Inums : dinode[i].type = "free"}
ialloc(p) ==
  /\ At(p, "ialloc")
  /\ IF FreeInums = {} THEN Panic("ialloc: no inodes")
     ELSE /\ dinode' = [dinode EXCEPT ![Min(FreeInums)] = [FreeInode EXCEPT !.type = Top(p)[3]]]
          /\ Memory(icache, p, Then(p, <<<<"fresh", Top(p)[2], Top(p)[3], Min(FreeInums)>>>>))
          /\ odd' = IF Cached(Min(FreeInums)) # {} THEN odd \cup {"reused"} ELSE odd
          /\ UNCHANGED <<data, bitmap>>

iallocGet(p) ==
  /\ At(p, "fresh")
  /\ LET i == Top(p)[4]
         s == SlotOf(i)
     IN  IF s = 0 THEN Panic("iget: no inodes")
         ELSE Goes(Iget(icache, s, i), p, [Then(p, <<<<"made", Top(p)[2], Top(p)[3]>>>>) EXCEPT !.ip = s])

\* create, both inodes locked: the new inode, its dots and its entry.
FreeBlocks == Blocks \ bitmap
createMade(p) ==
  /\ At(p, "made")
  /\ LET s == proc[p].ip
         dp == proc[p].dp
         i == icache[s].inum
         d == icache[dp].inum
         isdir == Top(p)[3] = "dir"
         n == [Ilock(s) EXCEPT !.nlink = 1, !.addrs = IF isdir THEN <<Min(FreeBlocks)>> ELSE @]
         par == [icache[dp].ino EXCEPT !.nlink = IF isdir THEN @ + 1 ELSE @]
     IN  Ilocked(s,
           IF isdir /\ Ilock(s).type # "dir" THEN Panic("dirlookup not DIR")
           ELSE IF isdir /\ FreeBlocks = {} THEN Panic("balloc: out of blocks")
           ELSE /\ dinode' = [dinode EXCEPT ![i] = n, ![d] = par]
                /\ bitmap' = IF isdir THEN bitmap \cup {Min(FreeBlocks)} ELSE bitmap
                /\ data' = [dirlink(d, Top(p)[2], i) EXCEPT ![i] = IF isdir THEN [@ EXCEPT !["."] = i, ![".."] = d] ELSE @]
                /\ odd' = IF icache[dp].ino.nlink = 0 THEN odd \cup {"removed"} ELSE odd
                /\ Memory(Unlock(Visit(Lock(icache, s, n), dp, par), dp), p,
                          [Then(p, <<Put(dp)>>) EXCEPT !.dp = 0]))

\* mkdir and mknod end with iunlockput.
created(p) ==
  /\ At(p, "created")
  /\ LET s == proc[p].ip
     IN  Goes(Unlock(icache, s), p, [Then(p, <<Put(s)>>) EXCEPT !.ip = 0])

(************************ open files and directories ***********************)

\* sys_open without O_CREATE: a directory is only opened for reading.
open(p) ==
  /\ At(p, "open")
  /\ LET s == proc[p].cur
         n == Ilock(s)
     IN  IF s = 0 THEN Goes(icache, p, Return(p))
         ELSE Ilocked(s, IF n.type = "dir" /\ Top(p)[2]
                         THEN Goes(Visit(icache, s, n), p, [Return(p) EXCEPT !.cur = 0, !.todo = <<Put(s)>>])
                         ELSE Goes(Lock(icache, s, n), p, [Then(p, <<>>) EXCEPT !.cur = 0, !.ip = s]))

\* sys_open: a file structure and a descriptor for the locked inode.
FreeFiles == {f \in Files : ftable[f].ref = 0}
FreeFds(p) == {d \in 1..NOFILE : proc[p].ofile[d] = 0}
openFile(p) ==
  /\ At(p, "file")
  /\ LET s == proc[p].ip
         f == Min(FreeFiles)
     IN  IF FreeFiles = {} \/ FreeFds(p) = {}
         THEN Goes(Unlock(icache, s), p, [Then(p, <<Put(s)>>) EXCEPT !.ip = 0])
         ELSE /\ icache' = Unlock(icache, s)
              /\ ftable' = [ftable EXCEPT ![f] = [@ EXCEPT !.type = "inode", !.ref = 1, !.ip = s, !.writable = Top(p)[2]]]
              /\ proc' = [proc EXCEPT ![p] = [Then(p, <<>>) EXCEPT !.ip = 0, !.ofile[Min(FreeFds(p))] = f]]
              /\ UNCHANGED <<dinode, data, bitmap, pipes, panic, odd>>

\* sys_chdir: the old directory is put before proc->cwd changes, which only
\* the process itself reads.
chdir(p) ==
  /\ At(p, "chdir")
  /\ LET s == proc[p].cur
         n == Ilock(s)
     IN  IF s = 0 THEN Goes(icache, p, Return(p))
         ELSE Ilocked(s, Goes(Visit(icache, s, n), p,
                IF n.type = "dir" THEN [Then(p, <<Put(proc[p].cwd)>>) EXCEPT !.cur = 0, !.cwd = s]
                ELSE [Then(p, <<Put(s)>>) EXCEPT !.cur = 0]))

\* fileclose: the last reference is followed by iput or pipeclose.
LastRef(f) == ftable[f].ref = 1
Unref(f) == [ftable EXCEPT ![f] = IF LastRef(f) THEN ClosedFile ELSE [@ EXCEPT !.ref = @ - 1]]
Closing(f) ==
  CASE LastRef(f) /\ ftable[f].type = "inode" -> <<Put(ftable[f].ip)>>
    [] LastRef(f) /\ ftable[f].type = "pipe" -> <<<<"pipeclose", ftable[f].pipe, ftable[f].writable>>>>
    [] OTHER -> <<>>
\* fileclose of descriptor d; l is what the process does meanwhile.
Close(p, d, l) ==
  LET f == proc[p].ofile[d]
  IN  /\ ftable' = Unref(f)
      /\ proc' = [proc EXCEPT ![p] = [l EXCEPT !.ofile[d] = 0, !.todo = Closing(f) \o @]]
      /\ UNCHANGED <<dinode, data, bitmap, icache, pipes, panic, odd>>

\* pipealloc, for sys_pipe: the first file structure, then the second with the
\* pipe and the two descriptors.  What is missing a second one is given back.
pipealloc(p) ==
  /\ At(p, "pipealloc")
  /\ LET f == Min(FreeFiles)
     IN  /\ ftable' = IF FreeFiles = {} THEN ftable ELSE [ftable EXCEPT ![f].ref = 1]
         /\ proc' = [proc EXCEPT ![p] = Then(p, IF FreeFiles = {} THEN <<>> ELSE <<<<"pipe", f>>>>)]
         /\ UNCHANGED <<dinode, data, bitmap, icache, pipes, panic, odd>>
PipeEnd(f, k, w) == [f EXCEPT !.type = "pipe", !.ref = 1, !.pipe = k, !.writable = w]
pipe(p) ==
  /\ At(p, "pipe")
  /\ LET rf == Top(p)[2]
         wf == Min(FreeFiles)
         k == Min({n \in 1..(Cardinality(pipes) + 1) : \A e \in pipes : e[1] # n})
         fd0 == Min(FreeFds(p))
         fd1 == Min(FreeFds(p) \ {fd0})
     IN  IF FreeFiles = {} THEN Goes(icache, p, Then(p, <<<<"fileclose", rf>>>>))
         ELSE /\ ftable' = [ftable EXCEPT ![rf] = PipeEnd(@, k, FALSE), ![wf] = PipeEnd(@, k, TRUE)]
              /\ pipes' = pipes \cup {<<k, FALSE>>, <<k, TRUE>>}
              /\ proc' = [proc EXCEPT ![p] =
                   IF Cardinality(FreeFds(p)) < 2 THEN Then(p, <<<<"fileclose", rf>>, <<"fileclose", wf>>>>)
                   ELSE [Then(p, <<>>) EXCEPT !.ofile[fd0] = rf, !.ofile[fd1] = wf]]
              /\ UNCHANGED <<dinode, data, bitmap, icache, panic, odd>>
fileclose(p) ==
  /\ At(p, "fileclose")
  /\ LET f == Top(p)[2]
     IN  /\ ftable' = Unref(f)
         /\ proc' = [proc EXCEPT ![p] = Then(p, Closing(f))]
         /\ UNCHANGED <<dinode, data, bitmap, icache, pipes, panic, odd>>
\* pipeclose; the page is free when neither end is open.
pipeclose(p) ==
  /\ At(p, "pipeclose")
  /\ pipes' = pipes \ {<<Top(p)[2], Top(p)[3]>>}
  /\ proc' = [proc EXCEPT ![p] = Then(p, <<>>)]
  /\ UNCHANGED <<dinode, data, bitmap, icache, ftable, panic, odd>>

\* exit closes what is open, then puts the current directory.
exit(p) ==
  /\ At(p, "exit")
  /\ LET used == 1..NOFILE \ FreeFds(p)
     IN  IF used # {} THEN Close(p, Min(used), proc[p])
         ELSE Goes(icache, p, [proc[p] EXCEPT !.todo = <<Put(proc[p].cwd)>>, !.cwd = 0])

(****************************** system calls *******************************)

Calls == Cardinality(UNION {{p} \X (1..proc[p].calls) : p \in Procs})
Idle(p) == panic = "no" /\ proc[p].todo = <<>> /\ proc[p].cwd # 0 /\ Calls < MaxCalls
\* The system call op looks its path up and goes on with the steps st.
Call(p, st) == Idle(p) /\ Goes(icache, p, [proc[p] EXCEPT !.todo = st, !.calls = @ + 1])
Asked(op) == {c \in Menu : c.op = op}
OpenFds(p) == 1..NOFILE \ FreeFds(p)

sys_link(p) ==
  \E c \in Asked("link") : Call(p, <<Walk(c.path, FALSE), <<"link", c.new>>>>)
sys_unlink(p) ==
  \E c \in Asked("unlink") : Call(p, <<Walk(c.path, TRUE), <<"unlink", Name(c.path)>>>>)
sys_mkdir(p) ==
  \E c \in Asked("mkdir") : Call(p, <<Walk(c.path, TRUE), <<"create", Name(c.path), "dir">>, <<"created">>>>)
sys_mknod(p) ==
  \E c \in Asked("mknod") : Call(p, <<Walk(c.path, TRUE), <<"create", Name(c.path), "dev">>, <<"created">>>>)
sys_open(p) ==
  \/ \E c \in Asked("create") : Call(p, <<Walk(c.path, TRUE), <<"create", Name(c.path), "file">>, <<"file", TRUE>>>>)
  \/ \E c \in Asked("read") : Call(p, <<Walk(c.path, FALSE), <<"open", FALSE>>, <<"file", FALSE>>>>)
  \/ \E c \in Asked("write") : Call(p, <<Walk(c.path, FALSE), <<"open", TRUE>>, <<"file", TRUE>>>>)
sys_chdir(p) ==
  \E c \in Asked("chdir") : Call(p, <<Walk(c.path, FALSE), <<"chdir">>>>)
sys_exit(p) == Call(p, <<<<"exit">>>>)
sys_pipe(p) == Call(p, <<<<"pipealloc">>>>)
sys_close(p) ==
  \E d \in OpenFds(p) : Idle(p) /\ Close(p, d, [proc[p] EXCEPT !.calls = @ + 1])
sys_dup(p) ==
  \E d \in OpenFds(p) :
    /\ Idle(p) /\ FreeFds(p) # {}
    /\ ftable' = [ftable EXCEPT ![proc[p].ofile[d]].ref = @ + 1]
    /\ proc' = [proc EXCEPT ![p].ofile[Min(FreeFds(p))] = proc[p].ofile[d], ![p].calls = @ + 1]
    /\ UNCHANGED <<dinode, data, bitmap, icache, pipes, panic, odd>>

\* bmap: the bn-th block of the inode, allocated when it is missing, after the
\* indirect block when that is missing too; nothing when the disk is full.
Bmap(st, bn) ==
  LET free == Blocks \ st.used
      direct == bn <= NDIRECT \/ st.ino.indirect # 0
      b == Min(free)
      c == Min(free \ {b})
  IN  CASE bn <= Len(st.ino.addrs) -> st
        [] Cardinality(free) < IF direct THEN 1 ELSE 2 -> st
        [] direct -> [ino |-> [st.ino EXCEPT !.addrs = Append(@, b)], used |-> st.used \cup {b}]
        [] OTHER -> [ino |-> [st.ino EXCEPT !.indirect = b, !.addrs = Append(@, c)], used |-> st.used \cup {b, c}]

\* writei up to block end; readi stops at the end of the file.
writei(n, end) == FoldLeft(Bmap, [ino |-> n, used |-> bitmap], [k \in 1..end |-> k])
readi(n, off) == IF off < Len(n.addrs) THEN off + 1 ELSE off

\* filewrite of cnt blocks through writei, in one transaction; what is written
\* to a device does not reach the file system.
sys_write(p) ==
  \E d \in OpenFds(p), cnt \in 1..MAXFILE :
    LET f == proc[p].ofile[d]
        s == ftable[f].ip
        n == Ilock(s)
        end == ftable[f].off + cnt
        st == writei(n, end)
    IN  /\ Idle(p) /\ ftable[f].type = "inode" /\ ftable[f].writable /\ n.type # "dev"
        /\ Ilocked(s,
             IF end > MAXFILE THEN Goes(Visit(icache, s, n), p, [proc[p] EXCEPT !.calls = @ + 1])
             ELSE IF Len(st.ino.addrs) < end THEN Panic("balloc: out of blocks")
             ELSE /\ bitmap' = st.used
                  /\ dinode' = iupdate(icache[s].inum, st.ino)
                  /\ icache' = Visit(icache, s, st.ino)
                  /\ ftable' = [ftable EXCEPT ![f].off = end]
                  /\ proc' = [proc EXCEPT ![p].calls = @ + 1]
                  /\ UNCHANGED <<data, pipes, panic, odd>>)

\* fileread of a block.  filestat does the same with no change of the offset.
sys_read(p) ==
  \E d \in OpenFds(p) :
    LET f == proc[p].ofile[d]
        s == ftable[f].ip
    IN  /\ Idle(p) /\ ftable[f].type = "inode" /\ Ilock(s).type # "dev"
        /\ Ilocked(s, /\ icache' = Visit(icache, s, Ilock(s))
                      /\ ftable' = [ftable EXCEPT ![f].off = readi(Ilock(s), @)]
                      /\ proc' = [proc EXCEPT ![p].calls = @ + 1]
                      /\ UNCHANGED <<dinode, data, bitmap, pipes, panic, odd>>)

\* Nothing left to do: every process is done, or the kernel has halted.
Stopped ==
  /\ panic # "no" \/ \A p \in Procs : proc[p].todo = <<>>
  /\ UNCHANGED vars

Next ==
  \/ \E p \in Procs :
       \/ iput(p) \/ itrunc(p) \/ iforget(p) \/ namexStart(p) \/ namexStep(p)
       \/ link(p) \/ linkEntry(p) \/ linkUndo(p)
       \/ unlink(p) \/ unlinkErase(p) \/ unlinkDrop(p)
       \/ create(p) \/ createExists(p) \/ ialloc(p) \/ iallocGet(p) \/ createMade(p) \/ created(p)
       \/ open(p) \/ openFile(p) \/ chdir(p) \/ exit(p)
       \/ pipealloc(p) \/ pipe(p) \/ fileclose(p) \/ pipeclose(p)
       \/ sys_link(p) \/ sys_unlink(p) \/ sys_mkdir(p) \/ sys_mknod(p) \/ sys_open(p) \/ sys_chdir(p)
       \/ sys_exit(p) \/ sys_close(p) \/ sys_dup(p) \/ sys_pipe(p) \/ sys_read(p) \/ sys_write(p)
  \/ Stopped

Spec == Init /\ [][Next]_vars

(******************************* properties ********************************)

One(b) == IF b THEN 1 ELSE 0
\* The pending steps of the given kinds, by process and place, and the pointers
\* processes hold: in hand, as current directory, and those they are about to put.
Step(x) == proc[x[1]].todo[x[2]]
Pending(ops) == {x \in UNION {{p} \X DOMAIN proc[p].todo : p \in Procs} : Step(x)[1] \in ops}
Pointers == Procs \X {"cur", "ip", "dp", "cwd"}
Descriptors == {x \in Procs \X (1..NOFILE) : proc[x[1]].ofile[x[2]] # 0}
FilesOf(type) == {f \in Files : ftable[f].type = type}

\* "ip->ref tracks the number of in-memory pointers to the entry" (fs.c:118-119),
\* a file's ref the descriptors for it, an inode has one entry and an open end of
\* a pipe one file, whatever the order in which processes look up, open, close,
\* fail and exit.
RefsCounted ==
  LET putting == Pending({"put", "itrunc", "forget"})
      inHand == Pending({"pipe", "fileclose"})
      closing == Pending({"pipeclose"})
  IN  /\ \A s \in Slots : icache[s].ref =
             Cardinality({x \in Pointers : proc[x[1]][x[2]] = s}) + Cardinality({x \in putting : Step(x)[2] = s})
               + Cardinality({f \in FilesOf("inode") : ftable[f].ip = s})
      /\ \A f \in Files : ftable[f].ref =
             Cardinality({x \in Descriptors : proc[x[1]].ofile[x[2]] = f}) + Cardinality({x \in inHand : Step(x)[2] = f})
      /\ pipes = {<<ftable[f].pipe, ftable[f].writable>> : f \in FilesOf("pipe")} \cup {Tail(Step(x)) : x \in closing}
      /\ Cardinality(pipes) = Cardinality(FilesOf("pipe")) + Cardinality(closing)
      /\ \A i \in Inums : Cardinality(Cached(i)) <= 1

Quiet == \A p \in Procs : proc[p].todo = <<>>
Linked(d) == dinode[d].type = "dir" /\ dinode[d].nlink > 0
Entries(i) == {dn \in Inums \X Names : dinode[dn[1]].type = "dir" /\ data[dn[1]][dn[2]] = i}
Subdirs(i) == {d \in Inums \ {i} : Linked(d) /\ data[d][".."] = i}
InUse(i) == \E s \in Slots : icache[s].ref > 0 /\ icache[s].inum = i

\* Between system calls nlink counts "links to inode in file system" (fs.h:33):
\* the entries naming the inode, the ".." of its subdirectories, and one for
\* the root; an inode nobody links to is free or still in use, never lost.
\* Exceptions: an entry made in a removed directory (create and link do not look
\* at the directory's nlink), and what follows from the other two rare things.
LinksCounted ==
  Quiet /\ panic = "no" /\ odd = {} =>
    \A i \in Inums :
      IF dinode[i].type = "free" THEN Entries(i) = {}
      ELSE /\ dinode[i].nlink = Cardinality(Entries(i)) + Cardinality(Subdirs(i)) + One(i = Root)
           /\ dinode[i].nlink = 0 => InUse(i)

\* An inode that is some process's current directory or open file is not freed
\* under it, and a valid entry agrees with the disk on type and link count
\* whenever nobody has the inode locked; so the kernel halts for want of inodes,
\* blocks or cache entries, and none of the consistency panics of fs.c and
\* sysfile.c is reached.  Exceptions: the window in iput between writing type 0
\* and clearing I_VALID, and a dangling "..".
HeldNotFreed ==
  "reused" \notin odd /\ "dotdot" \notin odd =>
    /\ \A p \in Procs : proc[p].cwd # 0 => dinode[icache[proc[p].cwd].inum].type = "dir"
    /\ \A f \in Files : ftable[f].type = "inode" => dinode[icache[ftable[f].ip].inum].type # "free"
    /\ \A s \in Slots : icache[s].ref > 0 /\ icache[s].valid => icache[s].ino = dinode[icache[s].inum]
    /\ panic \in {"no", "ialloc: no inodes", "iget: no inodes", "balloc: out of blocks"}

\* The bitmap marks exactly the blocks inodes own, and no block has two owners:
\* balloc, bmap and itrunc neither lose a block nor hand one out twice.
BlocksOwned ==
  "reused" \notin odd =>
    /\ bitmap = UNION {ToSet(dinode[i].addrs) \cup ({dinode[i].indirect} \ {0}) : i \in Inums}
    /\ Cardinality(bitmap) =
         Cardinality(UNION {{i} \X DOMAIN dinode[i].addrs : i \in Inums})
           + Cardinality({i \in Inums : dinode[i].indirect # 0})
=============================================================================
