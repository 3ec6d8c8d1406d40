---------------------------- MODULE MCDiscordLoop -----------------------------
(***************************************************************************)
(* Small instances of DiscordLoop for TLC.                                 *)
(***************************************************************************)
EXTENDS DiscordLoop, TLC

CONSTANTS k1, k2, c1, c2

MCSymmetry == Permutations(Claims)
MCGuildSymmetry == Permutations(Claims) \cup Permutations(Channels)

(* One acknowledged trigger: the first message of c1. *)
MCAcks == {<<c1, 1, 0>>}
MCNoAcks == {}

-----------------------------------------------------------------------------
(* What the documents promise and the code, by the run, does not keep. *)

(* docs/personality.md:894, "On restart, finalize an already-acknowledged send
   without sending it again."  claimLoop refuses a channel whose expired run
   has an acknowledged final until the run is completed; that is possible only
   while some fence of the run is still good. *)
AcknowledgedSendsFinalizable ==
    \A c \in Channels :
        AwaitingFinalization(c)
        => \E k \in Claims : issued[k].run = channelState[c].run /\ CompleteGuard(k)

=============================================================================
