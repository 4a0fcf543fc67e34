--------------------------- MODULE MCHostAdmission ---------------------------
(* Two new requests beside a retained machine. r2 is a retry of the attempt *)
(* that left the machine behind, r3 is a larger request of another run.     *)
EXTENDS HostAdmission, TLC

CONSTANTS r1, r2, r3, n1, n3, m1

MCVmNameOf == r1 :> n1 @@ r2 :> n1 @@ r3 :> n3
MCSizeOf == r1 :> 1 @@ r2 :> 1 @@ r3 :> 2

\* The same host without a pool: two requests of one attempt at a time.
Repeated == HostBegins({}, {r3}) /\ hostBackend = "libvirt" /\ hostSize = 2

\* One host, where the machine by hand just fits, has it with an unknown size.
SizedUnlessTight == hostBackend = "libvirt" /\ hostSize # 2 => unsized = {}

SharedHostInit == (HostInit \/ Repeated) /\ SizedUnlessTight

SharedHostSpec == SharedHostInit /\ [][HostNext]_hostVars /\ WF_hostVars(ReaperStep)
=============================================================================
