------------------------------ MODULE FdTable ------------------------------
(***************************************************************************)
(* The descriptor tables an application sees through the POSIX wrapper    *)
(* (src/ctfs_wrapper.c), and the calls that fill, clear and outlive their  *)
(* slots.  ctfs_open and ctfs_openat (src/ctfs_func.c) take open_lock,     *)
(* scan ct_rt.fd[] for the first slot whose inode is NULL, resolve the     *)
(* path (creating the file with O_CREAT), unlock the inode's rt lock and   *)
(* only then store the inode in the slot; ctfs_close clears a slot without *)
(* the lock; ctfs_unlink (src/ctfs_func2.c) removes the name and frees the *)
(* inode without looking at the table.                                     *)
(*                                                                         *)
(* The wrapper hands a path that starts with '\' (Path "ct") to ctFS only, *)
(* and a relative path (Path "rel") to ctFS first and, when that call      *)
(* returns -1, to the host's open or unlink under the same name.  It adds  *)
(* CT_FD_OFFSET to a ctFS descriptor and routes a close by fd >=           *)
(* CT_FD_OFFSET.  The host kernel hands out its lowest free descriptor     *)
(* below RLIMIT_NOFILE, whose default is CT_FD_OFFSET (HostFds).           *)
(*                                                                         *)
(* The namespace is one directory of regular files; its rt locks (which    *)
(* PathLock models) make each lookup, create and unlink one step here.     *)
(* inode_alloc hands out any free inode number (InodeAlloc models the      *)
(* bitmap).  Threads are the application's threads; a thread keeps the     *)
(* handles its opens returned and closes only those.  gen counts the       *)
(* allocations of each inode number (history), so a handle records which   *)
(* incarnation of the inode it opened.                                     *)
(***************************************************************************)
EXTENDS Integers, FiniteSetsExt

CONSTANTS
    Threads,    \* application threads
    NoOne,      \* open_lock is free
    Names,      \* file names in the directory
    Inodes,     \* inode numbers inode_alloc may return (root excluded)
    MaxFd,      \* CT_MAX_FD
    Offset,     \* CT_FD_OFFSET, and the host's RLIMIT_NOFILE
    Calls,      \* the calls a thread may make
    MaxCalls    \* calls per thread

NULL == 0                       \* an empty slot, and no inode
Fds == 0 .. MaxFd - 1
HostFds == 0 .. Offset - 1

\* Every allocated inode is named by an entry, so a create always finds a
\* free inode number.
ASSUME Cardinality(Inodes) > Cardinality(Names)

VARIABLES
    fd,         \* slot -> ct_rt.fd[slot].inode
    openLock,   \* the holder of ct_rt.open_lock
    dir,        \* name -> inode number of its entry, NULL if none
    alloc,      \* the allocated inode numbers
    gen,        \* inode number -> how often it was allocated (history)
    host,       \* host descriptor -> the name of the host file, NULL if free
    hostDir,    \* the names that exist in the host's working directory
    pc,         \* where each thread is
    req,        \* the call each thread is making
    slot,       \* the slot its open's scan stopped at
    got,        \* frame.current of its open
    handles,    \* thread -> the [fd, fs, ino, gen] its calls returned, not closed
    ncalls      \* thread -> calls made

vars == <<fd, openLock, dir, alloc, gen, host, hostDir, pc, req, slot, got,
          handles, ncalls>>

\* ctfs_init: the runtime, descriptor table included, is zeroed, and
\* open_lock initialised; the directory starts empty.  The host table is
\* free and the working directory holds none of the names.
Init ==
    /\ fd = [f \in Fds |-> NULL]
    /\ openLock = NoOne
    /\ dir = [n \in Names |-> NULL]
    /\ alloc = {} /\ gen = [i \in Inodes |-> 0]
    /\ host = [h \in HostFds |-> NULL]
    /\ hostDir = {}
    /\ pc = [t \in Threads |-> "idle"]
    /\ req = [t \in Threads |-> CHOOSE c \in Calls : TRUE]
    /\ slot = [t \in Threads |-> 0] /\ got = [t \in Threads |-> NULL]
    /\ handles = [t \in Threads |-> {}]
    /\ ncalls = [t \in Threads |-> 0]

Goto(t, l) == pc' = [pc EXCEPT ![t] = l]

\* A ctFS call returns to the wrapper at l; its frame (fd, frame.current)
\* is gone.
Return(t, l) ==
    /\ Goto(t, l)
    /\ slot' = [slot EXCEPT ![t] = 0] /\ got' = [got EXCEPT ![t] = NULL]

\* Where a thread goes when its ctFS call returns -1: the wrapper retries a
\* relative path on the host.
Failed(t) == Return(t, IF req[t].path = "rel" THEN "host" ELSE "idle")

\* The wrapper's OPEN (or OPENAT) calls ctfs_open (ctfs_openat), which
\* spins on open_lock.
StartOpen(t, c) ==
    /\ pc[t] = "idle" /\ ncalls[t] < MaxCalls /\ c.kind \in {"open", "openat"}
    /\ req' = [req EXCEPT ![t] = c]
    /\ ncalls' = [ncalls EXCEPT ![t] = @ + 1]
    /\ Goto(t, "lock")
    /\ UNCHANGED <<fd, openLock, dir, alloc, gen, host, hostDir, slot, got,
                   handles>>

\* Mutant: the open_lock acquisition does not exclude another holder.
OpenLock_noExclusion(t) ==
    /\ pc[t] = "lock"
    /\ openLock' = t
    /\ Goto(t, "scan")
    /\ UNCHANGED <<fd, dir, alloc, gen, host, hostDir, req, slot, got,
                   handles, ncalls>>

\* ctfs_lock_acquire(open_lock): a spin lock.
OpenLock(t) ==
    /\ pc[t] = "lock" /\ openLock = NoOne
    /\ openLock' = t
    /\ Goto(t, "scan")
    /\ UNCHANGED <<fd, dir, alloc, gen, host, hostDir, req, slot, got,
                   handles, ncalls>>

\* Mutant: the scan runs to fd <= CT_MAX_FD, so a full table yields the
\* slot past its end instead of ENFILE.
Scan_pastEnd(t) ==
    /\ pc[t] = "scan"
    /\ \/ /\ \E f \in Fds : fd[f] = NULL
          /\ slot' = [slot EXCEPT ![t] = Min({f \in Fds : fd[f] = NULL})]
       \/ /\ \A f \in Fds : fd[f] # NULL
          /\ slot' = [slot EXCEPT ![t] = MaxFd]
    /\ Goto(t, "resolve")
    /\ UNCHANGED <<fd, openLock, dir, alloc, gen, host, hostDir, req, got,
                   handles, ncalls>>

\* The scan for the first slot with a NULL inode; a full table returns -1
\* (ENFILE) and releases open_lock.
Scan(t) ==
    /\ pc[t] = "scan"
    /\ \/ /\ \E f \in Fds : fd[f] = NULL
          /\ slot' = [slot EXCEPT ![t] = Min({f \in Fds : fd[f] = NULL})]
          /\ Goto(t, "resolve")
          /\ UNCHANGED <<openLock, got>>
       \/ /\ \A f \in Fds : fd[f] # NULL
          /\ openLock' = NoOne
          /\ Failed(t)
    /\ UNCHANGED <<fd, dir, alloc, gen, host, hostDir, req, handles, ncalls>>

\* Mutant: the ENOENT return keeps open_lock.
Resolve_keepLock(t) ==
    /\ pc[t] = "resolve"
    /\ LET n == req[t].name
       IN  \/ /\ dir[n] # NULL
              /\ got' = [got EXCEPT ![t] = dir[n]]
              /\ Goto(t, "install")
              /\ UNCHANGED <<openLock, dir, alloc, gen, slot>>
           \/ /\ dir[n] = NULL /\ req[t].creat
              /\ \E i \in Inodes \ alloc :
                    /\ alloc' = alloc \cup {i}
                    /\ gen' = [gen EXCEPT ![i] = @ + 1]
                    /\ dir' = [dir EXCEPT ![n] = i]
                    /\ got' = [got EXCEPT ![t] = i]
              /\ Goto(t, "install")
              /\ UNCHANGED <<openLock, slot>>
           \/ /\ dir[n] = NULL /\ ~req[t].creat
              /\ Failed(t)
              /\ UNCHANGED <<openLock, dir, alloc, gen>>
    /\ UNCHANGED <<fd, host, hostDir, req, handles, ncalls>>

\* inode_path2inode: the name's inode, or with O_CREAT a new inode and
\* its entry (inode_create); it returns with the inode's rt lock held,
\* which ctfs_open releases (inode_rt_unlock) before it fills the slot.
\* A missing name without O_CREAT returns -1 and releases open_lock.
Resolve(t) ==
    /\ pc[t] = "resolve"
    /\ LET n == req[t].name
       IN  \/ /\ dir[n] # NULL
              /\ got' = [got EXCEPT ![t] = dir[n]]
              /\ Goto(t, "install")
              /\ UNCHANGED <<openLock, dir, alloc, gen, slot>>
           \/ /\ dir[n] = NULL /\ req[t].creat
              /\ \E i \in Inodes \ alloc :
                    /\ alloc' = alloc \cup {i}
                    /\ gen' = [gen EXCEPT ![i] = @ + 1]
                    /\ dir' = [dir EXCEPT ![n] = i]
                    /\ got' = [got EXCEPT ![t] = i]
              /\ Goto(t, "install")
              /\ UNCHANGED <<openLock, slot>>
           \/ /\ dir[n] = NULL /\ ~req[t].creat
              /\ openLock' = NoOne
              /\ Failed(t)
              /\ UNCHANGED <<dir, alloc, gen>>
    /\ UNCHANGED <<fd, host, hostDir, req, handles, ncalls>>

\* The descriptor the application receives for ctFS slot s.
AppFd(s) == s + Offset

\* Mutant: the wrapper returns ctfs_open's result without CT_FD_OFFSET.
Install_noOffset(t) ==
    /\ pc[t] = "install"
    /\ fd' = [fd EXCEPT ![slot[t]] = got[t]]
    /\ LET ret == IF req[t].kind = "openat" THEN 0 ELSE slot[t]
       IN  handles' = [handles EXCEPT ![t] =
              @ \cup {[fd |-> ret, fs |-> "ct", ino |-> got[t],
                       gen |-> gen[got[t]]]}]
    /\ openLock' = NoOne
    /\ Return(t, "idle")
    /\ UNCHANGED <<dir, alloc, gen, host, hostDir, req, ncalls>>

\* ct_rt.fd[fd].inode = frame.current, then open_lock is released;
\* ctfs_open returns fd, ctfs_openat 0, and the wrapper adds CT_FD_OFFSET.
Install(t) ==
    /\ pc[t] = "install"
    /\ fd' = [fd EXCEPT ![slot[t]] = got[t]]
    /\ LET ret == IF req[t].kind = "openat" THEN 0 ELSE slot[t]
       IN  handles' = [handles EXCEPT ![t] =
              @ \cup {[fd |-> AppFd(ret), fs |-> "ct", ino |-> got[t],
                       gen |-> gen[got[t]]]}]
    /\ openLock' = NoOne
    /\ Return(t, "idle")
    /\ UNCHANGED <<dir, alloc, gen, host, hostDir, req, ncalls>>

\* real_ops.OPEN(path, oflag) after ctFS returned -1: the host's lowest
\* free descriptor on the host file of that name, created with O_CREAT;
\* ENOENT without it, EMFILE when the host table is full.
HostOpen(t) ==
    /\ pc[t] = "host"
    /\ LET n == req[t].name
           free == {h \in HostFds : host[h] = NULL}
       IN  \/ /\ free # {} /\ (n \in hostDir \/ req[t].creat)
              /\ host' = [host EXCEPT ![Min(free)] = n]
              /\ hostDir' = hostDir \cup {n}
              /\ handles' = [handles EXCEPT ![t] =
                    @ \cup {[fd |-> Min(free), fs |-> "host", ino |-> n,
                             gen |-> 0]}]
           \/ /\ free = {} \/ (n \notin hostDir /\ ~req[t].creat)
              /\ UNCHANGED <<host, hostDir, handles>>
    /\ Goto(t, "idle")
    /\ UNCHANGED <<fd, openLock, dir, alloc, gen, req, slot, got, ncalls>>

\* Mutant: the wrapper's CLOSE tests file > CT_FD_OFFSET.
Close_strictOffset(t, h) ==
    /\ pc[t] = "idle" /\ ncalls[t] < MaxCalls /\ h \in handles[t]
    /\ \/ /\ h.fd > Offset
          /\ fd' = [fd EXCEPT ![h.fd - Offset] = NULL]
          /\ UNCHANGED host
       \/ /\ h.fd <= Offset
          /\ host' = [host EXCEPT ![h.fd] = NULL]
          /\ UNCHANGED fd
    /\ handles' = [handles EXCEPT ![t] = @ \ {h}]
    /\ ncalls' = [ncalls EXCEPT ![t] = @ + 1]
    /\ UNCHANGED <<openLock, dir, alloc, gen, hostDir, pc, req, slot, got>>

\* The wrapper's CLOSE: a descriptor >= CT_FD_OFFSET goes to ctfs_close,
\* which clears the slot (EBADF if it is empty) without any lock; any
\* other to the host's close.  The thread drops the handle either way.
Close(t, h) ==
    /\ pc[t] = "idle" /\ ncalls[t] < MaxCalls /\ h \in handles[t]
    /\ \/ /\ h.fd >= Offset
          /\ fd' = [fd EXCEPT ![h.fd - Offset] = NULL]
          /\ UNCHANGED host
       \/ /\ h.fd < Offset
          /\ host' = [host EXCEPT ![h.fd] = NULL]
          /\ UNCHANGED fd
    /\ handles' = [handles EXCEPT ![t] = @ \ {h}]
    /\ ncalls' = [ncalls EXCEPT ![t] = @ + 1]
    /\ UNCHANGED <<openLock, dir, alloc, gen, hostDir, pc, req, slot, got>>

\* ctfs_unlink(n): the entry is cleared and, i_nlink being 1 (ctfs_link
\* never links), inode_dealloc frees the inode (and pgg_deallocate its
\* group); descriptors are not consulted.  A missing name returns -1
\* (ENOENT), and the wrapper retries a relative path on the host.
Unlink(t, c) ==
    /\ pc[t] = "idle" /\ ncalls[t] < MaxCalls /\ c.kind = "unlink"
    /\ req' = [req EXCEPT ![t] = c]
    /\ \/ /\ dir[c.name] # NULL
          /\ alloc' = alloc \ {dir[c.name]}
          /\ dir' = [dir EXCEPT ![c.name] = NULL]
          /\ UNCHANGED pc
       \/ /\ dir[c.name] = NULL
          /\ Goto(t, IF c.path = "rel" THEN "hostunlink" ELSE "idle")
          /\ UNCHANGED <<dir, alloc>>
    /\ ncalls' = [ncalls EXCEPT ![t] = @ + 1]
    /\ UNCHANGED <<fd, openLock, gen, host, hostDir, slot, got, handles>>

\* real_ops.UNLINK(path): the host name is removed (ENOENT if absent).
HostUnlink(t) ==
    /\ pc[t] = "hostunlink"
    /\ hostDir' = hostDir \ {req[t].name}
    /\ Goto(t, "idle")
    /\ UNCHANGED <<fd, openLock, dir, alloc, gen, host, req, slot, got,
                   handles, ncalls>>

Step(t) ==
    \/ \E c \in Calls : StartOpen(t, c)
    \/ OpenLock(t) \/ Scan(t) \/ Resolve(t) \/ Install(t) \/ HostOpen(t)
    \/ \E h \in handles[t] : Close(t, h)
    \/ \E c \in Calls : Unlink(t, c)
    \/ HostUnlink(t)

Next == \E t \in Threads : Step(t)

\* Each thread's own steps are taken once they are enabled and stay so:
\* the scheduler runs every runnable thread; a thread spinning on a held
\* open_lock has no enabled step.
Spec == Init /\ [][Next]_vars /\ \A t \in Threads : WF_vars(Step(t))

-----------------------------------------------------------------------------
AppFds == HostFds \cup {AppFd(s) : s \in Fds}
Handle == [fd : AppFds, fs : {"ct", "host"}, ino : Inodes \cup Names,
           gen : Nat]

TypeOK ==
    /\ fd \in [Fds -> Inodes \cup {NULL}]
    /\ openLock \in Threads \cup {NoOne}
    /\ dir \in [Names -> Inodes \cup {NULL}] /\ alloc \subseteq Inodes
    /\ host \in [HostFds -> Names \cup {NULL}] /\ hostDir \subseteq Names
    /\ pc \in [Threads -> {"idle", "lock", "scan", "resolve", "install",
                           "host", "hostunlink"}]
    /\ slot \in [Threads -> Fds] /\ got \in [Threads -> Inodes \cup {NULL}]
    /\ \A t \in Threads : handles[t] \subseteq Handle

\* The slot of the table a descriptor is routed to by the wrapper.
Target(h) == IF h.fd >= Offset THEN fd[h.fd - Offset] ELSE host[h.fd]

\* No two handles the application holds, in one thread or in two, are the
\* same descriptor: two opens racing for the first free slot are ordered
\* by open_lock from the scan to the store, and a close between them only
\* frees a slot.  A second handle on a descriptor would read, write and
\* close another thread's file.
HandleExclusive ==
    \A t1, t2 \in Threads :
        \A h1 \in handles[t1], h2 \in handles[t2] :
            (t1 # t2 \/ h1 # h2) => h1.fd # h2.fd

\* Every descriptor the application holds is routed by the wrapper to the
\* table, ctFS's or the host's, whose slot holds the file it opened: the
\* CT_FD_OFFSET added on open and the fd >= CT_FD_OFFSET test of every
\* call agree, and host descriptors stay below the offset.
HandleRouted ==
    \A t \in Threads : \A h \in handles[t] : Target(h) = h.ino

\* No slot of either table outlives the handles: every filled slot is the
\* target of a descriptor some thread holds, so the close the wrapper
\* routes frees it and ENFILE means the application really has CT_MAX_FD
\* files open.
NoLeakedSlot ==
    /\ \A s \in Fds : fd[s] # NULL =>
          \E t \in Threads : \E h \in handles[t] : h.fd = AppFd(s)
    /\ \A s \in HostFds : host[s] # NULL =>
          \E t \in Threads : \E h \in handles[t] : h.fd = s

\* Every call returns: every exit of ctfs_open and ctfs_openat (ENFILE,
\* ENOENT, success) releases open_lock, so no thread spins on it forever,
\* and the host fall-backs are single calls.
OpenReturns == \A t \in Threads : [](pc[t] # "idle" => <>(pc[t] = "idle"))
=============================================================================
