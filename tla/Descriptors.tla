----------------------------- MODULE Descriptors -----------------------------
(***************************************************************************)
(* The descriptor helpers at the end of evutil.c: evutil_socket_,          *)
(* evutil_accept4_, evutil_make_internal_pipe_ and evutil_eventfd_, which  *)
(* hand out descriptors that are non-blocking and close-on-exec, and the   *)
(* public evutil_make_socket_nonblocking / _closeonexec / evutil_closesocket. *)
(*                                                                         *)
(* Each helper first tries the Linux call that sets the flags atomically   *)
(* (socket/accept4 with SOCK_ flags, pipe2, eventfd with EFD_ flags).     *)
(* When that call fails it creates the descriptor plainly and sets the    *)
(* flags afterwards with one fcntl() per flag and descriptor, closing    *)
(* what it made if one of them fails.  A helper call is a sequence of     *)
(* system calls made by one thread; another thread of the process may     *)
(* fork() and exec() between any two of them, and the child then         *)
(* inherits every descriptor that is not yet close-on-exec.               *)
(*                                                                         *)
(* Descriptors are the numbers in Fds; a creation that finds none free     *)
(* fails (EMFILE), and any system call may fail for other reasons.         *)
(* kernelFlags says whether the kernel accepts the flag-taking calls       *)
(* (Linux >= 2.6.27); without them they fail with EINVAL or ENOSYS.       *)
(***************************************************************************)
EXTENDS Integers, Sequences, SequencesExt, FiniteSets

CONSTANTS
    Fds,          \* descriptor numbers
    KernelFlags   \* the possible values of kernelFlags, a subset of BOOLEAN

NONBLOCK == "NONBLOCK"      \* SOCK_NONBLOCK, O_NONBLOCK, EFD_NONBLOCK
CLOEXEC == "CLOEXEC"        \* SOCK_CLOEXEC, O_CLOEXEC, EFD_CLOEXEC
Flags == {NONBLOCK, CLOEXEC}
Helpers == {"socket", "accept4", "pipe", "eventfd", "connect", "open"}

VARIABLES
    fdOpen,       \* the descriptors open in the process
    nonblock,     \* O_NONBLOCK of each descriptor
    cloexec,      \* FD_CLOEXEC of each descriptor
    kernelFlags,  \* the kernel supports the flag-taking calls
    call,         \* the helper call in progress, or the last one returned
    owned,        \* descriptors the helpers returned to the caller
    wanted,       \* the flags the caller asked for on each of them
    inherited     \* promised close-on-exec descriptors an exec'd child got

vars == <<fdOpen, nonblock, cloexec, kernelFlags, call, owned, wanted,
          inherited>>

\* A helper call: the function, its next step, the flags asked for, the
\* descriptors made so far (in fd[] order), the fcntl()s still to do,
\* and its outcome.
Call == [fn : Helpers, pc : {"flags", "plain", "socketpair", "fcntl", "nonblock",
                             "connect", "done"},
         flags : SUBSET Flags, made : Seq(Fds),
         todo : Seq([fd : Fds, flag : Flags]),
         result : {"running", "ok", "err"}]

Free == Fds \ fdOpen

-----------------------------------------------------------------------------
(* Creating and closing descriptors.                                      *)

\* The kernel opens the descriptors fs; flags it sets atomically.
Create(fs, flags) ==
    /\ fdOpen' = fdOpen \cup fs
    /\ nonblock' = [f \in Fds |-> IF f \in fs THEN NONBLOCK \in flags
                                 ELSE nonblock[f]]
    /\ cloexec' = [f \in Fds |-> IF f \in fs THEN CLOEXEC \in flags
                                ELSE cloexec[f]]

\* Mutant of FcntlPlan: the flags are set on fd[0] only.
FcntlPlanFirstOnly(fds, order, flags) ==
    LET fl == SelectSeq(order, LAMBDA x : x \in flags)
    IN [i \in 1..Len(fl) |-> [fd |-> fds[1], flag |-> fl[i]]]

\* The fcntl()s that set the flags after a plain creation, in the order
\* the helper makes them: for each flag in `order` that was asked for,
\* one call per descriptor in fd[] order.
FcntlPlan(fds, order, flags) ==
    LET fl == SelectSeq(order, LAMBDA x : x \in flags)
        n  == Len(fds)
    IN [i \in 1..(Len(fl) * n) |->
          [fd |-> fds[((i - 1) % n) + 1], flag |-> fl[(i - 1) \div n + 1]]]

\* The helper returns: on success its descriptors go to the caller.
Return(c) ==
    /\ call' = [c EXCEPT !.pc = "done"]
    /\ owned' = IF c.result = "ok" THEN owned \cup ToSet(c.made) ELSE owned
    /\ wanted' = [f \in Fds |-> IF c.result = "ok" /\ f \in ToSet(c.made)
                                THEN c.flags ELSE wanted[f]]

\* After a plain creation of fds: the fcntl()s to make, if any.
Created(fds, order) ==
    LET c == [call EXCEPT !.made = fds,
                          !.todo = FcntlPlan(fds, order, call.flags)]
    IN IF c.todo = <<>>
       THEN Return([c EXCEPT !.result = "ok"])
       ELSE /\ call' = [c EXCEPT !.pc = "fcntl"]
            /\ UNCHANGED <<owned, wanted>>

\* A call fails before it made anything: it returns -1.
Fail ==
    /\ call' = [call EXCEPT !.pc = "done", !.result = "err"]
    /\ UNCHANGED <<fdOpen, nonblock, cloexec, owned, wanted>>

\* Go on to the next step of the same call.
Goto(pc) ==
    /\ call' = [call EXCEPT !.pc = pc]
    /\ UNCHANGED <<fdOpen, nonblock, cloexec, owned, wanted>>

FlagsAccepted(flags) == kernelFlags \/ flags = {}

-----------------------------------------------------------------------------
(* The helpers, one action per system call.                               *)

\* The caller enters a helper; evutil_make_internal_pipe_ always asks for
\* both flags.
Begin(fn, flags) ==
    /\ call.pc = "done"
    /\ fn = "pipe" => flags = Flags
    /\ fn = "connect" => flags = {NONBLOCK}
    /\ fn = "open" => flags = {CLOEXEC}
    /\ call' = [fn |-> fn, pc |-> "flags", flags |-> flags, made |-> <<>>,
                todo |-> <<>>, result |-> "running"]
    /\ UNCHANGED <<fdOpen, nonblock, cloexec, owned, wanted>>

\* socket(type | SOCK_NONBLOCK | SOCK_CLOEXEC) or eventfd(initval, flags):
\* the descriptor is returned as made; any failure falls back to the
\* plain call, unless no flag was asked for.
CreateWithFlags ==
    /\ call.fn \in {"socket", "eventfd"} /\ call.pc = "flags"
    /\ \/ /\ FlagsAccepted(call.flags)
          /\ \E f \in Free :
               /\ Create({f}, call.flags)
               /\ Return([call EXCEPT !.made = <<f>>, !.result = "ok"])
       \/ IF call.flags = {} THEN Fail ELSE Goto("plain")

\* socket(type & SOCKET_TYPE_MASK), then O_NONBLOCK before FD_CLOEXEC.
SocketPlain ==
    /\ call.fn = "socket" /\ call.pc = "plain"
    /\ \/ \E f \in Free : Create({f}, {}) /\ Created(<<f>>, <<NONBLOCK, CLOEXEC>>)
       \/ Fail

\* eventfd(initval, 0), then FD_CLOEXEC before O_NONBLOCK.
EventfdPlain ==
    /\ call.fn = "eventfd" /\ call.pc = "plain"
    /\ \/ \E f \in Free : Create({f}, {}) /\ Created(<<f>>, <<CLOEXEC, NONBLOCK>>)
       \/ Fail

\* accept4(sockfd, ..., flags): only EINVAL and ENOSYS, the errors of a
\* kernel without accept4 or its flags, fall back to accept().
Accept4 ==
    /\ call.fn = "accept4" /\ call.pc = "flags"
    /\ IF kernelFlags
       THEN \/ \E f \in Free :
                 /\ Create({f}, call.flags)
                 /\ Return([call EXCEPT !.made = <<f>>, !.result = "ok"])
            \/ Fail
       ELSE Goto("plain")

\* accept(), then FD_CLOEXEC before O_NONBLOCK.
AcceptPlain ==
    /\ call.fn = "accept4" /\ call.pc = "plain"
    /\ \/ \E f \in Free : Create({f}, {}) /\ Created(<<f>>, <<CLOEXEC, NONBLOCK>>)
       \/ Fail

\* pipe2(fd, O_NONBLOCK|O_CLOEXEC); on failure pipe().
Pipe2 ==
    /\ call.fn = "pipe" /\ call.pc = "flags"
    /\ \/ /\ kernelFlags
          /\ \E f0, f1 \in Free :
               /\ f0 # f1
               /\ Create({f0, f1}, Flags)
               /\ Return([call EXCEPT !.made = <<f0, f1>>, !.result = "ok"])
       \/ Goto("plain")

\* pipe(fd), or when it fails socketpair(AF_UNIX, SOCK_STREAM, 0, fd);
\* then O_NONBLOCK on fd[0] and fd[1] before FD_CLOEXEC on both.
PipePlain ==
    /\ call.fn = "pipe" /\ call.pc \in {"plain", "socketpair"}
    /\ \/ \E f0, f1 \in Free :
            /\ f0 # f1
            /\ Create({f0, f1}, {})
            /\ Created(<<f0, f1>>, <<NONBLOCK, CLOEXEC>>)
       \/ IF call.pc = "plain" THEN Goto("socketpair") ELSE Fail

\* Mutant of FcntlOk: after the last fcntl() the helper falls through
\* without its return value.
FcntlOkNoResult ==
    /\ call.pc = "fcntl"
    /\ LET s == Head(call.todo)
       IN /\ nonblock' = IF s.flag = NONBLOCK
                         THEN [nonblock EXCEPT ![s.fd] = TRUE] ELSE nonblock
          /\ cloexec' = IF s.flag = CLOEXEC
                        THEN [cloexec EXCEPT ![s.fd] = TRUE] ELSE cloexec
    /\ IF Len(call.todo) = 1
       THEN Return([call EXCEPT !.todo = <<>>])
       ELSE /\ call' = [call EXCEPT !.todo = Tail(@)]
            /\ UNCHANGED <<owned, wanted>>
    /\ UNCHANGED fdOpen

\* evutil_fast_socket_nonblocking / evutil_fast_socket_closeonexec on the
\* next descriptor of the plan succeeds; after the last the helper returns.
FcntlOk ==
    /\ call.pc = "fcntl"
    /\ LET s == Head(call.todo)
       IN /\ nonblock' = IF s.flag = NONBLOCK
                         THEN [nonblock EXCEPT ![s.fd] = TRUE] ELSE nonblock
          /\ cloexec' = IF s.flag = CLOEXEC
                        THEN [cloexec EXCEPT ![s.fd] = TRUE] ELSE cloexec
    /\ IF Len(call.todo) = 1
       THEN Return([call EXCEPT !.todo = <<>>, !.result = "ok"])
       ELSE /\ call' = [call EXCEPT !.todo = Tail(@)]
            /\ UNCHANGED <<owned, wanted>>
    /\ UNCHANGED fdOpen

\* Mutant of FcntlFail: only fd[0] is closed.
FcntlFailCloseFirst ==
    /\ call.pc = "fcntl"
    /\ fdOpen' = fdOpen \ {call.made[1]}
    /\ nonblock' = [f \in Fds |-> nonblock[f] /\ f # call.made[1]]
    /\ cloexec' = [f \in Fds |-> cloexec[f] /\ f # call.made[1]]
    /\ Return([call EXCEPT !.made = <<>>, !.todo = <<>>, !.result = "err"])

\* One fcntl() fails: the helper closes every descriptor it made (for
\* the pipe also fd[0] = fd[1] = -1) and returns -1.
FcntlFail ==
    /\ call.pc = "fcntl"
    /\ fdOpen' = fdOpen \ ToSet(call.made)
    /\ nonblock' = [f \in Fds |-> nonblock[f] /\ f \notin ToSet(call.made)]
    /\ cloexec' = [f \in Fds |-> cloexec[f] /\ f \notin ToSet(call.made)]
    /\ Return([call EXCEPT !.made = <<>>, !.todo = <<>>, !.result = "err"])

\* evutil_socket_connect_ with *fd_ptr < 0: socket(family, SOCK_STREAM, 0).
ConnectSocket ==
    /\ call.fn = "connect" /\ call.pc = "flags"
    /\ \/ \E f \in Free :
            /\ Create({f}, {})
            /\ call' = [call EXCEPT !.made = <<f>>, !.pc = "nonblock"]
            /\ UNCHANGED <<owned, wanted>>
       \/ Fail

\* evutil_socket_connect_ on a descriptor the caller passed in: connect()
\* directly, and the descriptor is not the helper's to close.
BeginConnect(f) ==
    /\ call.pc = "done"
    /\ f \in owned
    /\ call' = [fn |-> "connect", pc |-> "connect", flags |-> {NONBLOCK},
                made |-> <<>>, todo |-> <<>>, result |-> "running"]
    /\ UNCHANGED <<fdOpen, nonblock, cloexec, owned, wanted>>

\* evutil_make_socket_nonblocking on the new descriptor; if it fails the
\* helper closes it (made_fd), sets *fd_ptr = -1 and returns -1.
ConnectNonblocking ==
    /\ call.fn = "connect" /\ call.pc = "nonblock"
    /\ \/ /\ nonblock' = [nonblock EXCEPT ![call.made[1]] = TRUE]
          /\ call' = [call EXCEPT !.pc = "connect"]
          /\ UNCHANGED <<fdOpen, cloexec, owned, wanted>>
       \/ /\ fdOpen' = fdOpen \ {call.made[1]}
          /\ nonblock' = [nonblock EXCEPT ![call.made[1]] = FALSE]
          /\ UNCHANGED cloexec
          /\ Return([call EXCEPT !.made = <<>>, !.result = "err"])

\* connect(): connected (1), EINPROGRESS and the like (0) or ECONNREFUSED
\* (2) return with the descriptor in *fd_ptr; any other error closes it
\* only if this call made it.
Connect ==
    /\ call.fn = "connect" /\ call.pc = "connect"
    /\ \/ /\ Return([call EXCEPT !.result = "ok"])
          /\ UNCHANGED <<fdOpen, nonblock, cloexec>>
       \/ /\ fdOpen' = fdOpen \ ToSet(call.made)
          /\ nonblock' = [f \in Fds |-> nonblock[f] /\ f \notin ToSet(call.made)]
          /\ UNCHANGED cloexec
          /\ Return([call EXCEPT !.made = <<>>, !.result = "err"])

\* evutil_open_closeonexec_: open(pathname, flags|O_CLOEXEC) is returned
\* as it is when it succeeds or fails with EINVAL (a kernel without
\* O_CLOEXEC, or a bad flag); any other error (ENOENT, EACCES, EMFILE,
\* EINTR) falls through to the plain open().  The comment after the test
\* says the opposite: that EINVAL falls through.
OpenCloexec ==
    /\ call.fn = "open" /\ call.pc = "flags"
    /\ \/ /\ kernelFlags
          /\ \E f \in Free :
               /\ Create({f}, call.flags)
               /\ Return([call EXCEPT !.made = <<f>>, !.result = "ok"])
       \/ Fail                 \* errno == EINVAL
       \/ Goto("plain")        \* any other errno

\* open(pathname, flags), then fcntl(fd, F_SETFD, FD_CLOEXEC), closing the
\* descriptor if that fails.
OpenPlain ==
    /\ call.fn = "open" /\ call.pc = "plain"
    /\ \/ \E f \in Free : Create({f}, {}) /\ Created(<<f>>, <<CLOEXEC>>)
       \/ Fail

HelperStep ==
    \/ OpenCloexec \/ OpenPlain
    \/ ConnectSocket \/ ConnectNonblocking \/ Connect
    \/ CreateWithFlags \/ SocketPlain \/ EventfdPlain \/ Accept4
    \/ AcceptPlain \/ Pipe2 \/ PipePlain \/ FcntlOk \/ FcntlFail

-----------------------------------------------------------------------------
(* The caller, and the rest of the process.                               *)

\* evutil_make_socket_nonblocking: F_GETFL, then F_SETFL only if O_NONBLOCK
\* is not yet set; either fcntl() may fail and leave the flag as it was.
MakeSocketNonblocking(f) ==
    /\ f \in owned
    /\ \E ok \in BOOLEAN :
         nonblock' = [nonblock EXCEPT ![f] = @ \/ ok]
    /\ UNCHANGED <<fdOpen, cloexec, kernelFlags, call, owned, wanted, inherited>>

\* evutil_make_socket_closeonexec: the same with F_GETFD / F_SETFD.
MakeSocketCloseonexec(f) ==
    /\ f \in owned
    /\ \E ok \in BOOLEAN :
         cloexec' = [cloexec EXCEPT ![f] = @ \/ ok]
    /\ UNCHANGED <<fdOpen, nonblock, kernelFlags, call, owned, wanted, inherited>>

\* evutil_closesocket on a descriptor a helper returned; the number is
\* free for the next creation.
CloseSocket(f) ==
    /\ f \in owned
    /\ fdOpen' = fdOpen \ {f}
    /\ owned' = owned \ {f}
    /\ nonblock' = [nonblock EXCEPT ![f] = FALSE]
    /\ cloexec' = [cloexec EXCEPT ![f] = FALSE]
    /\ wanted' = [wanted EXCEPT ![f] = {}]
    /\ UNCHANGED <<kernelFlags, call, inherited>>

\* The flags a descriptor was promised: those its helper was asked for.
Promised(f) ==
    IF f \in owned THEN wanted[f]
    ELSE IF f \in ToSet(call.made) THEN call.flags ELSE {}

\* Another thread forks and the child execs: it keeps every open
\* descriptor that is not close-on-exec.
ForkExec ==
    /\ inherited' = inherited \cup
                      {f \in fdOpen : ~cloexec[f] /\ CLOEXEC \in Promised(f)}
    /\ UNCHANGED <<fdOpen, nonblock, cloexec, kernelFlags, call, owned, wanted>>

NoCall == [fn |-> "socket", pc |-> "done", flags |-> {}, made |-> <<>>,
           todo |-> <<>>, result |-> "ok"]

Init ==
    /\ fdOpen = {}
    /\ nonblock = [f \in Fds |-> FALSE]
    /\ cloexec = [f \in Fds |-> FALSE]
    /\ kernelFlags \in KernelFlags
    /\ call = NoCall
    /\ owned = {}
    /\ wanted = [f \in Fds |-> {}]
    /\ inherited = {}

Next ==
    \/ \E fn \in Helpers, flags \in SUBSET Flags :
         Begin(fn, flags) /\ UNCHANGED <<kernelFlags, inherited>>
    \/ HelperStep /\ UNCHANGED <<kernelFlags, inherited>>
    \/ \E f \in Fds : BeginConnect(f) /\ UNCHANGED <<kernelFlags, inherited>>
    \/ \E f \in Fds :
         MakeSocketNonblocking(f) \/ MakeSocketCloseonexec(f) \/ CloseSocket(f)
    \/ ForkExec

Spec == Init /\ [][Next]_vars

-----------------------------------------------------------------------------
(* Properties.                                                             *)

TypeOK ==
    /\ fdOpen \subseteq Fds /\ owned \subseteq Fds
    /\ nonblock \in [Fds -> BOOLEAN] /\ cloexec \in [Fds -> BOOLEAN]
    /\ kernelFlags \in BOOLEAN
    /\ call \in Call
    /\ (call.result = "running") = (call.pc # "done")
    /\ wanted \in [Fds -> SUBSET Flags]
    /\ inherited \subseteq Fds

\* No helper leaks a descriptor on any path: every descriptor open in the
\* process is one a helper returned to its caller or one the call in
\* progress has made, so a helper that returns -1 after a failed fcntl()
\* has closed everything it opened.
NoDescriptorLeak ==
    fdOpen = owned \cup (IF call.pc = "done" THEN {} ELSE ToSet(call.made))

\* A descriptor a helper returned has every flag the caller asked for,
\* whichever of the atomic and fallback paths produced it.
FlagsAsPromised ==
    \A f \in owned :
        /\ NONBLOCK \in wanted[f] => nonblock[f]
        /\ CLOEXEC \in wanted[f] => cloexec[f]

\* A descriptor that a helper was asked to make close-on-exec never
\* reaches a program another thread exec()s, not even while the helper
\* is still between its creation and its fcntl(F_SETFD).
NoCloexecInherited == inherited = {}

\* The comment in evutil_open_closeonexec_: "If we got an EINVAL, fall
\* through and try without O_CLOEXEC".  On a kernel that rejects
\* O_CLOEXEC the first open() therefore never ends the call with -1.
OpenFallsThroughOnEinval ==
    [][call.fn = "open" /\ call.pc = "flags" /\ ~kernelFlags
         => call'.result # "err"]_vars

=============================================================================
