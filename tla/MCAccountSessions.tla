-------------------------- MODULE MCAccountSessions --------------------------
(* Small instances of AccountSessions: two devices, one of which is banned. *)
EXTENDS AccountSessions, TLC

CONSTANTS p1, p2, d1, d2

MCDeviceOf == p1 :> d1 @@ p2 :> d2

MCBannable == Uid \cup {d1}
=============================================================================
