----------------------------- MODULE MC_Sockets -----------------------------
(***************************************************************************)
(* The descriptor harnesses in one model: the descriptor helpers of       *)
(* MC_Descriptors, against a thread that forks and execs; one call of     *)
(* evutil_ersatz_socketpair_ of MC_ErsatzSocketpair, against a foreign     *)
(* connector; and one call of evutil_read_file_ of ReadFile, against a    *)
(* process that appends to and truncates the file.  harness tells the     *)
(* sets of behaviours apart; the variables of the other harnesses keep    *)
(* their initial values throughout.                                        *)
(* The descriptor numbers d1, d2, d3 occur only in the Descriptors state, *)
(* so permuting them stays a symmetry of the joint model.                  *)
(***************************************************************************)
EXTENDS Naturals

CONSTANTS d1, d2, d3,
          rfNull, rfNoMem   \* NULL and NoMem of ReadFile

VARIABLES
    harness,
    fdOpen, nonblock, cloexec, kernelFlags, call, owned, wanted, inherited,
    pc, made, opened, addr, peer, queue, used, listenAddr, connectAddr,
    result, fd,
    file, rfPc, fdIsOpen, stSize, mem, readSoFar, lastRead, ret, contentOut,
    changed

\* The bounds of Descriptors_safety.cfg and ErsatzSocketpair_safety.cfg:
\* three descriptors and any kernel; four ports and a backlog of two.
D == INSTANCE MC_Descriptors WITH Fds <- {d1, d2, d3}, KernelFlags <- BOOLEAN
E == INSTANCE MC_ErsatzSocketpair WITH
        Ports <- 1..4, Backlog <- 2,
        Families <- {"AF_INET", "AF_UNIX", "AF_INET6"}, Protocols <- {0, 6}
\* Files of up to three bits, and an EV_SSIZE_MAX that makes a file of
\* three bytes too large, so that every exit of the call is reached.
R == INSTANCE ReadFile WITH Data <- {0, 1}, MaxFile <- 3, SsizeMax <- 3,
                            NULL <- rfNull, NoMem <- rfNoMem

dVars == <<fdOpen, nonblock, cloexec, kernelFlags, call, owned, wanted,
           inherited>>
eVars == <<pc, made, opened, addr, peer, queue, used, listenAddr,
           connectAddr, result, fd>>
rVars == <<file, rfPc, fdIsOpen, stSize, mem, readSoFar, lastRead, ret,
           contentOut, changed>>
socketVars == <<harness, dVars, eVars, rVars>>

SocketsInit ==
    /\ harness \in {"descriptors", "ersatz", "readfile"}
    /\ D!Init /\ E!Init /\ R!Init
    /\ harness # "readfile" => file = <<>>

\* The ersatz call and the file read stop once they have returned: those
\* states stutter.
SocketsNext ==
    \/ harness = "descriptors" /\ D!Next /\ UNCHANGED <<harness, eVars, rVars>>
    \/ harness = "ersatz" /\ E!Next /\ UNCHANGED <<harness, dVars, rVars>>
    \/ harness = "ersatz" /\ pc = "done" /\ UNCHANGED socketVars
    \/ harness = "readfile" /\ R!Next /\ UNCHANGED <<harness, dVars, eVars>>
    \/ harness = "readfile" /\ rfPc = "done" /\ UNCHANGED socketVars

\* ReadFile's fairness: the thread in evutil_read_file_ keeps running.
SocketsSpec == SocketsInit /\ [][SocketsNext]_socketVars /\ WF_rVars(R!ReaderRuns)

MCSymmetry == D!MCSymmetry

\* The properties of both harnesses, under the names of this model; each
\* holds trivially in the other harness's behaviours, whose state is idle.
DescriptorsTypeOK == D!TypeOK
NoDescriptorLeak == D!NoDescriptorLeak
FlagsAsPromised == D!FlagsAsPromised
SocketpairTypeOK == E!TypeOK
PairIsConnected == E!PairIsConnected
NoSocketLeak == E!NoSocketLeak
ReadFileTypeOK == R!TypeOK
ReadWithinAllocation == R!ReadWithinAllocation
NoLeakOnReturn == R!NoLeakOnReturn
WholeFileIfUnchanged == R!WholeFileIfUnchanged
ReadFileReturns == harness = "readfile" => R!ReadFileReturns

=============================================================================
