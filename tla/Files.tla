--------------------------------- MODULE Files ---------------------------------
(***************************************************************************)
(* Inodes, directories, path names and open files: the inode table and     *)
(* namex() of kernel/fs.c, the file table of kernel/file.c, and the calls  *)
(* of kernel/sysfile.c that work on names.  A step is a stretch in which a *)
(* process holds the lock of one inode, or adds the lock of a second one;  *)
(* iput() is steps of its own.  Every change of an inode is followed by    *)
(* iupdate() before its lock is released, so the copy in the table and the *)
(* inode on disk agree whenever somebody else can look, and are one here.  *)
(* What is in a file is left to the module Blocks.                         *)
(***************************************************************************)
EXTENDS Naturals, Sequences, FiniteSets, FiniteSetsExt

CONSTANTS Proc, NULL, Name,
          NINODES,   \* sb.ninodes
          NFILE, NOFILE,
          Calls,     \* the calls processes make: [op, path, new]
          Dirs,      \* the names of directories that may exist already, at most one
          MaxCalls   \* bound: how many calls they make altogether

ROOTINO == 1
Inum == ROOTINO .. NINODES
Elem == Name \cup {".", ".."}

ASSUME FilesAssumption == NINODES \in Nat \ {0} /\ NULL \notin Proc /\ NULL \notin Nat

VARIABLES
  ino,     \* inodes: [type, nlink, dir], dir[name] = 0 where there is no entry
  ent,     \* their entries of itable: [ref, valid, lock]
  file,    \* ftable: [ref, ip], ip = NULL for an end of a pipe
  ofile, cwd,
  th,      \* a process in a call: [pc, call, path, cur, ip, dp, puts, phase, files]
  calls,   \* how many calls have been made
  orphaned \* history: a name was created in a removed directory

vars == <<ino, ent, file, ofile, cwd, th, calls, orphaned>>

NoDir == [n \in Elem |-> 0]
FreeInode == [type |-> "free", nlink |-> 0, dir |-> NoDir]
Idle == [pc |-> "idle", call |-> NULL, path |-> <<>>, cur |-> NULL, ip |-> NULL, dp |-> NULL, puts |-> <<>>, phase |-> "test",
         files |-> <<>>]

NewDir(i, d) == [type |-> "dir", nlink |-> 1, dir |-> [NoDir EXCEPT !["."] = i, ![".."] = d]]

(* What mkfs leaves: a root whose "." and ".." name itself; or a root that *)
(* has directories already.                                                *)
Init ==
  /\ \E dirs \in SUBSET Dirs :
       ino = [i \in Inum |->
                CASE i = ROOTINO -> [type |-> "dir", nlink |-> 1 + Cardinality(dirs),
                       dir |-> [n \in Elem |-> IF n \in {".", ".."} THEN ROOTINO ELSE IF n \in dirs THEN ROOTINO + 1 ELSE 0]]
                  [] i = ROOTINO + 1 /\ dirs # {} -> NewDir(i, ROOTINO)
                  [] OTHER -> FreeInode]
  /\ ent = [i \in Inum |-> [ref |-> IF i = ROOTINO THEN Cardinality(Proc) ELSE 0, valid |-> FALSE, lock |-> NULL]]
  /\ file = [f \in 1 .. NFILE |-> [ref |-> 0, ip |-> NULL]]
  /\ ofile = [p \in Proc |-> [fd \in 1 .. NOFILE |-> NULL]]
  /\ cwd = [p \in Proc |-> ROOTINO]
  /\ th = [p \in Proc |-> Idle]
  /\ calls = 0
  /\ orphaned = FALSE

(* filealloc() and fdalloc() take the first of these. *)
unused_files == {f \in DOMAIN file : file[f].ref = 0}
unused_fds(p) == {fd \in DOMAIN ofile[p] : ofile[p][fd] = NULL}

(* Process p is at label l, and no iput() is in progress. *)
at(p, l) == th[p].pc = l /\ th[p].puts = <<>>
free(i) == ent[i].lock = NULL
get(e, i) == [e EXCEPT ![i].ref = @ + 1, ![i].valid = e[i].ref > 0 /\ @]
lock(e, i, p) == [e EXCEPT ![i].lock = p, ![i].valid = TRUE]
unlock(e, i) == [e EXCEPT ![i].lock = NULL]

(* iput() of Head(puts): drop the reference, unless this is the last one   *)
(* and there is no link; then the inode is locked, still under itable.lock *)
(* (Mutant: nlink is not looked at.)                                       *)
last_use_any(i) == ent[i].ref = 1 /\ ent[i].valid
last_use(i) == ent[i].ref = 1 /\ ent[i].valid /\ ino[i].nlink = 0

iput(p) ==
  LET i == Head(th[p].puts)
  IN  /\ th[p].puts # <<>> /\ th[p].phase = "test"
      /\ IF last_use(i)
         THEN /\ free(i)
              /\ ent' = [ent EXCEPT ![i].lock = p]
              /\ th' = [th EXCEPT ![p].phase = "trunc"]
         ELSE /\ ent' = [ent EXCEPT ![i].ref = @ - 1]
              /\ th' = [th EXCEPT ![p].puts = Tail(@)]
      /\ UNCHANGED <<ino, file, ofile, cwd, calls, orphaned>>

(* ... truncated, freed on disk and unlocked, without itable.lock, ... *)
iput_trunc(p) ==
  LET i == Head(th[p].puts)
  IN  /\ th[p].phase = "trunc"
      /\ ino' = [ino EXCEPT ![i] = FreeInode]
      /\ ent' = [ent EXCEPT ![i].valid = FALSE, ![i].lock = NULL]
      /\ th' = [th EXCEPT ![p].phase = "ref"]
      /\ UNCHANGED <<file, ofile, cwd, calls, orphaned>>

(* ... and dropped. *)
iput_ref(p) ==
  /\ th[p].phase = "ref"
  /\ ent' = [ent EXCEPT ![Head(th[p].puts)].ref = @ - 1]
  /\ th' = [th EXCEPT ![p].phase = "test", ![p].puts = Tail(@)]
  /\ UNCHANGED <<ino, file, ofile, cwd, calls, orphaned>>

(* A call begins with a path from the root or from the current directory. *)
begin(p) ==
  /\ at(p, "idle") /\ calls < MaxCalls /\ cwd[p] # NULL
  /\ \E c \in Calls, i \in {ROOTINO, cwd[p]} :
       /\ th' = [th EXCEPT ![p] = [@ EXCEPT !.pc = "namex", !.call = c, !.path = c.path, !.cur = i]]
       /\ ent' = get(ent, i)
  /\ calls' = calls + 1
  /\ UNCHANGED <<ino, file, ofile, cwd, orphaned>>

(* The call ends after it has dropped what it still refers to. *)
return(p, puts) == th' = [th EXCEPT ![p] = [Idle EXCEPT !.puts = puts]]

(* nameiparent() or namei(); link(old, new) walks twice. *)
parent(p) == th[p].call.op \in {"create", "mkdir", "mknod", "unlink"} \/ th[p].ip # NULL
lookup_fails(p) ==
  IF th[p].call.op = "link" /\ th[p].ip # NULL
  THEN th' = [th EXCEPT ![p] = [@ EXCEPT !.pc = "link_bad", !.cur = NULL, !.puts = <<th[p].cur>>]]
  ELSE return(p, <<th[p].cur>>)

(* One turn of the loop of namex(): ilock(ip), then return 0, or stop one  *)
(* level early, or dirlookup() and on to the next element.                 *)
namex(p) ==
  LET i == th[p].cur  path == th[p].path  next == ino[i].dir[Head(path)]
      stop == ino[i].type = "dir" /\ parent(p) /\ Len(path) = 1
      found == ino[i].type = "dir" /\ ~stop /\ next # 0
      e == [ent EXCEPT ![i].valid = TRUE]
  IN  /\ at(p, "namex") /\ path # <<>> /\ free(i)
      /\ \/ /\ stop
            /\ th' = [th EXCEPT ![p] = [@ EXCEPT !.pc = "parent", !.dp = i, !.cur = NULL]]
            /\ ent' = e
         \/ /\ found
            /\ th' = [th EXCEPT ![p] = [@ EXCEPT !.cur = next, !.path = Tail(path), !.puts = <<i>>]]
            /\ ent' = get(e, next)
         \/ ~stop /\ ~found /\ lookup_fails(p) /\ ent' = e
      /\ UNCHANGED <<ino, file, ofile, cwd, calls, orphaned>>

(* The path is used up. *)
namex_end(p) ==
  /\ at(p, "namex") /\ th[p].path = <<>>
  /\ IF parent(p) THEN lookup_fails(p)
     ELSE th' = [th EXCEPT ![p] = [@ EXCEPT !.pc = "found", !.ip = th[p].cur, !.cur = NULL]]
  /\ UNCHANGED <<ino, ent, file, ofile, cwd, calls, orphaned>>

in(p, l, op) == at(p, l) /\ th[p].call.op = op
go(p, l) == [th[p] EXCEPT !.pc = l]

(* dirlink(dp, name, inum) fails when the name is present or, at any time, *)
(* because the disk is full.                                               *)
dirlink(inos, d, n, i) == [inos EXCEPT ![d].dir[n] = i]

(* create(): the parent is locked.  An existing file may be opened, ... *)
create_old(p) ==
  LET d == th[p].dp  i == ino[d].dir[Head(th[p].path)]
  IN  /\ at(p, "parent") /\ th[p].call.op \in {"create", "mkdir", "mknod"} /\ free(d) /\ i # 0
      /\ ent' = get([ent EXCEPT ![d].valid = TRUE], i)
      /\ th' = [th EXCEPT ![p] = [go(p, "exists") EXCEPT !.ip = i, !.dp = NULL, !.puts = <<d>>]]
      /\ UNCHANGED <<ino, file, ofile, cwd, calls, orphaned>>

create_exists(p) ==
  LET i == th[p].ip
  IN  /\ at(p, "exists") /\ free(i)
      /\ IF th[p].call.op = "create" /\ ino[i].type # "dir"
         THEN /\ ent' = lock(ent, i, p)
              /\ th' = [th EXCEPT ![p] = go(p, "tail")]
         ELSE /\ ent' = [ent EXCEPT ![i].valid = TRUE]
              /\ return(p, <<i>>)
      /\ UNCHANGED <<ino, file, ofile, cwd, calls, orphaned>>

(* ... else ialloc() takes the first free inode, with the parent locked, *)
create_ialloc(p) ==
  LET d == th[p].dp  unused == {i \in Inum : ino[i].type = "free"}  i == Min(unused)
      type == CASE th[p].call.op = "create" -> "file" [] th[p].call.op = "mkdir" -> "dir" [] OTHER -> "device"
  IN  /\ at(p, "parent") /\ th[p].call.op \in {"create", "mkdir", "mknod"} /\ free(d)
      /\ ino[d].dir[Head(th[p].path)] = 0
      /\ IF unused = {}
         THEN /\ ent' = [ent EXCEPT ![d].valid = TRUE]
              /\ return(p, <<d>>)
              /\ UNCHANGED ino
         ELSE /\ ent' = get(lock(ent, d, p), i)
              /\ ino' = [ino EXCEPT ![i].type = type]
              /\ th' = [th EXCEPT ![p] = [go(p, "new") EXCEPT !.ip = i]]
      /\ UNCHANGED <<file, ofile, cwd, calls, orphaned>>

(* and is locked, linked to itself and its parent, and entered there. *)
create_new(p) ==
  LET d == th[p].dp  i == th[p].ip
      isdir == ino[i].type = "dir"
      dots == IF isdir THEN dirlink(dirlink(ino, i, ".", i), i, "..", d) ELSE ino
  IN  /\ at(p, "new") /\ free(i)
      /\ ino' = [dirlink(dots, d, Head(th[p].path), i) EXCEPT
                   ![i].nlink = 1, ![d].nlink = IF isdir THEN @ + 1 ELSE @]
      /\ orphaned' = (orphaned \/ ino[d].nlink = 0)
      /\ ent' = unlock(lock(ent, i, p), d)
      /\ th' = [th EXCEPT ![p] = [go(p, "tail") EXCEPT !.dp = NULL, !.puts = <<d>>]]
      /\ UNCHANGED <<file, ofile, cwd, calls>>

(* One of the dirlink()s fails: ip is freed again, then dp is let go. *)
create_fail(p) ==
  LET i == th[p].ip
  IN  /\ at(p, "new") /\ free(i)
      /\ ino' = [ino EXCEPT ![i].nlink = 0]
      /\ ent' = [ent EXCEPT ![i].valid = TRUE]
      /\ th' = [th EXCEPT ![p] = [go(p, "bad") EXCEPT !.ip = NULL, !.puts = <<i>>]]
      /\ UNCHANGED <<file, ofile, cwd, calls, orphaned>>

(* The iunlockput(dp) at the end of a call that fails.  (Mutant: only iput(dp).) *)
bad_locked(p) ==
  /\ at(p, "bad")
  /\ return(p, <<th[p].dp>>)
  /\ UNCHANGED <<ino, ent, file, ofile, cwd, calls, orphaned>>
bad(p) ==
  LET d == th[p].dp
  IN  /\ at(p, "bad")
      /\ ent' = unlock(ent, d)
      /\ return(p, <<d>>)
      /\ UNCHANGED <<ino, file, ofile, cwd, calls, orphaned>>

(* sys_mkdir() and sys_mknod(): iunlockput(ip). *)
mkdir_tail(p) ==
  LET i == th[p].ip
  IN  /\ at(p, "tail") /\ th[p].call.op \in {"mkdir", "mknod"}
      /\ ent' = unlock(ent, i)
      /\ return(p, <<i>>)
      /\ UNCHANGED <<ino, file, ofile, cwd, calls, orphaned>>

(* sys_open() without O_CREATE. *)
open(p) ==
  /\ in(p, "found", "open") /\ free(th[p].ip)
  /\ ent' = lock(ent, th[p].ip, p)
  /\ th' = [th EXCEPT ![p] = go(p, "tail")]
  /\ UNCHANGED <<ino, file, ofile, cwd, calls, orphaned>>

(* The rest of sys_open(): filealloc(), fdalloc(), and ip goes to the file *)
(* unless one of them fails, a directory is opened for writing, or the     *)
(* device does not exist.                                                  *)
open_tail(p) ==
  LET i == th[p].ip  fs == unused_files  fds == unused_fds(p)
  IN  /\ at(p, "tail") /\ th[p].call.op \in {"open", "create"}
      /\ ent' = unlock(ent, i)
      /\ \/ /\ fs # {} /\ fds # {}
            /\ file' = [file EXCEPT ![Min(fs)] = [ref |-> 1, ip |-> i]]
            /\ ofile' = [ofile EXCEPT ![p][Min(fds)] = Min(fs)]
            /\ return(p, <<>>)
         \/ /\ fs = {} \/ fds = {} \/ ino[i].type # "file"
            /\ return(p, <<i>>)
            /\ UNCHANGED <<file, ofile>>
      /\ UNCHANGED <<ino, cwd, calls, orphaned>>

(* sys_link(): count the link first, ... *)
link(p) ==
  LET i == th[p].ip  s == {ROOTINO, cwd[p]}
  IN  /\ in(p, "found", "link") /\ free(i)
      /\ IF ino[i].type = "dir"
         THEN /\ ent' = [ent EXCEPT ![i].valid = TRUE]
              /\ return(p, <<i>>)
              /\ UNCHANGED ino
         ELSE /\ ino' = [ino EXCEPT ![i].nlink = @ + 1]
              /\ \E c \in s :
                   /\ ent' = get([ent EXCEPT ![i].valid = TRUE], c)
                   /\ th' = [th EXCEPT ![p] = [go(p, "namex") EXCEPT !.path = th[p].call.new, !.cur = c]]
      /\ UNCHANGED <<file, ofile, cwd, calls, orphaned>>

(* ... then enter the new name, which may be taken or not fit. *)
link_in(p) ==
  LET d == th[p].dp  n == Head(th[p].path)  i == th[p].ip
  IN  /\ in(p, "parent", "link") /\ free(d)
      /\ ent' = [ent EXCEPT ![d].valid = TRUE]
      /\ \/ /\ ino[d].dir[n] = 0
            /\ ino' = dirlink(ino, d, n, i)
            /\ orphaned' = (orphaned \/ ino[d].nlink = 0)
            /\ return(p, <<d, i>>)
         \/ /\ th' = [th EXCEPT ![p] = [go(p, "link_bad") EXCEPT !.dp = NULL, !.puts = <<d>>]]
            /\ UNCHANGED <<ino, orphaned>>
      /\ UNCHANGED <<file, ofile, cwd, calls>>

link_bad(p) ==
  LET i == th[p].ip
  IN  /\ at(p, "link_bad") /\ free(i)
      /\ ino' = [ino EXCEPT ![i].nlink = @ - 1]
      /\ ent' = [ent EXCEPT ![i].valid = TRUE]
      /\ return(p, <<i>>)
      /\ UNCHANGED <<file, ofile, cwd, calls, orphaned>>

(* sys_unlink(): the parent is locked; "." and ".." stay. *)
unlink(p) ==
  LET d == th[p].dp  n == Head(th[p].path)  i == ino[d].dir[n]
  IN  /\ in(p, "parent", "unlink") /\ free(d)
      /\ IF n \in {".", ".."} \/ i = 0
         THEN /\ ent' = [ent EXCEPT ![d].valid = TRUE]
              /\ return(p, <<d>>)
         ELSE /\ ent' = get(lock(ent, d, p), i)
              /\ th' = [th EXCEPT ![p] = [go(p, "victim") EXCEPT !.ip = i]]
      /\ UNCHANGED <<ino, file, ofile, cwd, calls, orphaned>>

(* (Mutant: a directory need not be empty.) *)
isdirempty_any(i) == TRUE
isdirempty(i) == \A n \in Name : ino[i].dir[n] = 0

(* The child is locked too.  A directory with entries stays, ... *)
unlink_nonempty(p) ==
  LET i == th[p].ip
  IN  /\ at(p, "victim") /\ free(i)
      /\ ino[i].type = "dir" /\ ~isdirempty(i)
      /\ ent' = [ent EXCEPT ![i].valid = TRUE]
      /\ th' = [th EXCEPT ![p] = [go(p, "bad") EXCEPT !.ip = NULL, !.puts = <<i>>]]
      /\ UNCHANGED <<ino, file, ofile, cwd, calls, orphaned>>

(* ... else the entry goes, and dp is dropped while ip is still locked. *)
unlink_entry(p) ==
  LET d == th[p].dp  i == th[p].ip  isdir == ino[i].type = "dir"
  IN  /\ at(p, "victim") /\ free(i)
      /\ isdir => isdirempty(i)
      /\ ino' = [dirlink(ino, d, Head(th[p].path), 0) EXCEPT ![d].nlink = IF isdir THEN @ - 1 ELSE @]
      /\ ent' = unlock(lock(ent, i, p), d)
      /\ th' = [th EXCEPT ![p] = [go(p, "unlinked") EXCEPT !.dp = NULL, !.puts = <<d>>]]
      /\ UNCHANGED <<file, ofile, cwd, calls, orphaned>>

unlink_tail(p) ==
  LET i == th[p].ip
  IN  /\ at(p, "unlinked")
      /\ ino' = [ino EXCEPT ![i].nlink = @ - 1]
      /\ ent' = unlock(ent, i)
      /\ return(p, <<i>>)
      /\ UNCHANGED <<file, ofile, cwd, calls, orphaned>>

chdir(p) ==
  LET i == th[p].ip
  IN  /\ in(p, "found", "chdir") /\ free(i)
      /\ ent' = [ent EXCEPT ![i].valid = TRUE]
      /\ IF ino[i].type # "dir"
         THEN return(p, <<i>>) /\ UNCHANGED cwd
         ELSE return(p, <<cwd[p]>>) /\ cwd' = [cwd EXCEPT ![p] = i]
      /\ UNCHANGED <<ino, file, ofile, calls, orphaned>>

(* fileclose(): the last descriptor of a file drops its inode; what        *)
(* pipeclose() does to a pipe is in the module Pipe.                       *)
last_close(f) == file[f].ref = 1
fileclose(p, fd, l) ==
  LET f == ofile[p][fd]
  IN  /\ f # NULL
      /\ ofile' = [ofile EXCEPT ![p][fd] = NULL]
      /\ file' = [file EXCEPT ![f] = IF @.ref = 1 THEN [ref |-> 0, ip |-> NULL] ELSE [@ EXCEPT !.ref = @ - 1]]
      /\ th' = [th EXCEPT ![p] = [go(p, l) EXCEPT !.puts = IF last_close(f) /\ file[f].ip # NULL THEN <<file[f].ip>> ELSE <<>>]]
      /\ UNCHANGED <<ino, ent, cwd, calls, orphaned>>

close(p) == at(p, "idle") /\ \E fd \in DOMAIN ofile[p] : fileclose(p, fd, "idle")

dup(p) ==
  LET fds == unused_fds(p)
  IN  /\ at(p, "idle") /\ fds # {}
      /\ \E f \in {ofile[p][fd] : fd \in DOMAIN ofile[p]} \ {NULL} :
           /\ ofile' = [ofile EXCEPT ![p][Min(fds)] = f]
           /\ file' = [file EXCEPT ![f].ref = @ + 1]
      /\ UNCHANGED <<ino, ent, cwd, th, calls, orphaned>>

(* sys_pipe(): pipealloc() takes two files, one after the other, ... *)
pipe(p) ==
  /\ at(p, "idle") /\ calls < MaxCalls /\ cwd[p] # NULL
  /\ th' = [th EXCEPT ![p] = go(p, "pipe")]
  /\ calls' = calls + 1
  /\ UNCHANGED <<ino, ent, file, ofile, cwd, orphaned>>

pipealloc(p) ==
  /\ at(p, "pipe") /\ Len(th[p].files) < 2
  /\ IF unused_files = {}
     THEN th' = [th EXCEPT ![p] = go(p, "pipe_bad")] /\ UNCHANGED file
     ELSE /\ file' = [file EXCEPT ![Min(unused_files)].ref = 1]
          /\ th' = [th EXCEPT ![p].files = Append(@, Min(unused_files))]
  /\ UNCHANGED <<ino, ent, ofile, cwd, calls, orphaned>>

(* ... and a page, and each of the two gets a descriptor; both stay unused *)
(* if one cannot be had, or if copyout() fails.                            *)
pipe_fds(p) ==
  LET fds == unused_fds(p)  fd0 == Min(fds)  fd1 == Min(fds \ {fd0})  f == th[p].files
  IN  /\ at(p, "pipe") /\ Len(f) = 2
      /\ \/ /\ Cardinality(fds) >= 2
            /\ ofile' = [ofile EXCEPT ![p] = [@ EXCEPT ![fd0] = f[1], ![fd1] = f[2]]]
            /\ return(p, <<>>)
         \/ th' = [th EXCEPT ![p] = go(p, "pipe_bad")] /\ UNCHANGED ofile
      /\ UNCHANGED <<ino, ent, file, cwd, calls, orphaned>>

(* The fileclose() of each file that a pipe() which fails has got. *)
pipe_bad(p) ==
  LET f == th[p].files
  IN  /\ at(p, "pipe_bad")
      /\ IF f = <<>> THEN return(p, <<>>) /\ UNCHANGED file
         ELSE /\ file' = [file EXCEPT ![Head(f)].ref = @ - 1]
              /\ th' = [th EXCEPT ![p].files = Tail(f)]
      /\ UNCHANGED <<ino, ent, ofile, cwd, calls, orphaned>>

(* fork() copies the descriptors and the current directory, ... *)
fork(p, q) ==
  /\ at(p, "idle") /\ cwd[p] # NULL /\ cwd[q] = NULL /\ at(q, "idle")
  /\ ofile' = [ofile EXCEPT ![q] = ofile[p]]
  /\ file' = [f \in DOMAIN file |-> [file[f] EXCEPT
                !.ref = @ + Cardinality({fd \in DOMAIN ofile[p] : ofile[p][fd] = f})]]
  /\ cwd' = [cwd EXCEPT ![q] = cwd[p]]
  /\ ent' = [ent EXCEPT ![cwd[p]].ref = @ + 1]
  /\ UNCHANGED <<ino, th, calls, orphaned>>

(* ... exit() drops them, one after the other. *)
exit(p) ==
  /\ at(p, "idle") /\ cwd[p] # NULL /\ \E q \in Proc \ {p} : cwd[q] # NULL
  /\ calls < MaxCalls /\ calls' = calls + 1
  /\ th' = [th EXCEPT ![p] = go(p, "exit")]
  /\ UNCHANGED <<ino, ent, file, ofile, cwd, orphaned>>

exit_files(p) ==
  LET fds == {fd \in DOMAIN ofile[p] : ofile[p][fd] # NULL}
  IN  at(p, "exit") /\ fds # {} /\ fileclose(p, Min(fds), "exit")

exit_cwd(p) ==
  /\ at(p, "exit") /\ \A fd \in DOMAIN ofile[p] : ofile[p][fd] = NULL
  /\ cwd' = [cwd EXCEPT ![p] = NULL]
  /\ return(p, <<cwd[p]>>)
  /\ UNCHANGED <<ino, ent, file, ofile, calls, orphaned>>

Step(p) ==
  \/ iput(p) \/ iput_trunc(p) \/ iput_ref(p) \/ namex(p) \/ namex_end(p)
  \/ create_old(p) \/ create_exists(p) \/ create_ialloc(p) \/ create_new(p) \/ create_fail(p)
  \/ bad(p) \/ mkdir_tail(p) \/ open(p) \/ open_tail(p) \/ link(p) \/ link_in(p) \/ link_bad(p)
  \/ unlink(p) \/ unlink_nonempty(p) \/ unlink_entry(p) \/ unlink_tail(p) \/ chdir(p)
  \/ pipealloc(p) \/ pipe_fds(p) \/ pipe_bad(p) \/ exit_files(p) \/ exit_cwd(p)

Next == \E p \in Proc :
  Step(p) \/ begin(p) \/ close(p) \/ dup(p) \/ pipe(p) \/ exit(p) \/ \E q \in Proc : fork(p, q)

Spec == Init /\ [][Next]_vars

(* A process in a call goes on as long as it need not wait. *)
FairSpec == Spec /\ \A p \in Proc : WF_vars(Step(p))
-------------------------------------------------------------------------------
Busy(p) == th[p].pc # "idle" \/ th[p].puts # <<>>
Count(p, i) == Cardinality({x \in {"cur", "ip", "dp"} : th[p][x] = i})
               + Cardinality({k \in DOMAIN th[p].puts : th[p].puts[k] = i})

(* Reference counts are exact: ref of an inode is the number of open files,  *)
(* current directories and variables of calls in progress that point to it, *)
(* and ref of a file the number of descriptors and of pipe() calls that     *)
(* have it; a lock is held by a process that has a reference.               *)
RefsExact ==
  /\ \A i \in Inum :
       /\ ent[i].ref = Cardinality({p \in Proc : cwd[p] = i}) + Cardinality({f \in DOMAIN file : file[f].ip = i})
                       + MapThenSumSet(LAMBDA p : Count(p, i), Proc)
       /\ ent[i].lock # NULL => Count(ent[i].lock, i) > 0
  /\ \A f \in DOMAIN file :
       file[f].ref = Cardinality({<<p, fd>> \in Proc \X (1 .. NOFILE) : ofile[p][fd] = f})
                     + Cardinality({<<p, k>> \in Proc \X {1, 2} : k \in DOMAIN th[p].files /\ th[p].files[k] = f})

(* The comments of iput() are right: no pointer leads to an inode that is  *)
(* free on disk, so ilock() finds a type (panic "ilock: no type"), and the *)
(* last reference is never locked by another process, so iput() does not   *)
(* sleep while it holds itable.lock.                                       *)
NoFreedInode ==
  \A p \in Proc :
     /\ \A i \in {cwd[p], th[p].cur, th[p].ip, th[p].dp} \ {NULL} : ino[i].type # "free"
     /\ th[p].puts # <<>> /\ th[p].phase = "test" /\ last_use(Head(th[p].puts)) => free(Head(th[p].puts))

(* Both together: references in memory, of every kind, keep an inode. *)
FilesInv == RefsExact /\ NoFreedInode

Links(i) == {<<d, n>> \in Inum \X (Elem \ {"."}) : ino[d].nlink > 0 /\ ino[d].dir[n] = i}

(* When no call is in progress, nlink of an inode is the number of names   *)
(* that lead to it ("..", of a directory that has a name itself, included) *)
(* whatever calls raced or failed half way.  Names made in a removed       *)
(* directory, which are lost with it, are left out.                        *)
Quiet == \A p \in Proc : ~Busy(p)
LinksExact == Quiet /\ ~orphaned => \A i \in Inum : ino[i].nlink = Cardinality(Links(i))

(* What the comment on iput() says: the last reference to an inode without *)
(* links frees it, so when no call is in progress, an inode that has       *)
(* neither name nor reference is free on disk.                             *)
UnusedIsFree ==
  Quiet => \A i \in Inum : ino[i].nlink = 0 /\ ent[i].ref = 0 => ino[i].type = "free"

(* No lock is waited for in a circle: every call returns, parent and child *)
(* locked by unlink and create, or one after the other on a path.          *)
CallsReturn == \A p \in Proc : []<>~Busy(p)
===============================================================================
