---------------------------- MODULE MCAppenders ----------------------------
(***************************************************************************)
(* The two sides of buffered appenders: the claims of two handles (a group *)
(* g with the dataset g/d, and a dataset e), and the buffer of one         *)
(* appender, with elements of two bytes in chunks of two elements.  An     *)
(* appender holds its claim as long as it has a buffer, so the two do not  *)
(* meet; a behaviour follows one of them.                                  *)
(***************************************************************************)
EXTENDS AppenderClaims, TLC

CONSTANTS
    h1, h2,
    Chunk, ElementSize, FullBatch, Maxima, Unlimited, Lengths, Submissions, MaxBytes, MaxForeign, MaxFaults

VARIABLES
    side,       \* "claims" or "buffer"
    elements, setting, standing, buffer, call, other, faults, past

Appender == INSTANCE BufferedAppender WITH session <- standing

ASSUME AppenderAssumption == Appender!ConstantsOK

MCHandles  == {h1, h2}
MCPaths    == {<<"g">>, <<"g", "d">>, <<"e">>}
MCDatasets == {<<"g", "d">>, <<"e">>}

Symmetry == Permutations(MCHandles)

appender == <<elements, setting, standing, buffer, call, other, faults, past>>

SidesInit ==
    /\ side \in {"claims", "buffer"}
    /\ Init
    /\ Appender!Init
    /\ side = "claims" => elements = <<>> /\ setting.maximum = Unlimited /\ ~setting.lossy /\ ~setting.batched

SidesNext ==
    \/ side = "claims" /\ Next /\ UNCHANGED <<side, appender>>
    \/ side = "buffer" /\ Appender!Next /\ UNCHANGED <<side, vars>>

SidesSpec == SidesInit /\ [][SidesNext]_<<side, vars, appender>>

\* Nothing an appender accepted is lost or written twice (BufferState::write_prefix, settle).
UnwrittenFollowsWritten == Appender!UnwrittenFollowsWritten

\* An appender alone on its dataset is poisoned only by a failure or by elements of the wrong type.
PoisonNeedsCause == Appender!PoisonNeedsCause
=============================================================================
