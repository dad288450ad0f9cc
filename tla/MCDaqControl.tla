---------------------------- MODULE MCDaqControl ----------------------------
(* Instances of DaqControl for TLC.                                        *)
EXTENDS DaqControl

\* The preparations succeed.
MCPrepared == {"ok"}

\* Every way in which they can turn out.
MCAnyOutcome == {"ok", "modeCount", "modeItem", "noDir", "noTask"}
=============================================================================
