----------------------------- MODULE MCMembership -----------------------------
(* Small instances of what admission to the fabric rests on: the fence that   *)
(* admits members, and the keys that sign for it and for the other purposes,  *)
(* through rotations.  A behaviour is one part's; the other keeps its initial *)
(* state.                                                                     *)
EXTENDS MembershipFence, KeyRing

VARIABLE part

membershipVars == <<fenceVars, ringVars, part>>

-----------------------------------------------------------------------------
(* The fence: a trusted and an untrusted signer *)

MCTrusted == [id \in {"mk-v1"} |-> "pub1"]
MCSigners == { [id |-> "mk-v1", key |-> "pub1"], [id |-> "mk-v9", key |-> "pub9"] }
MCCapTTLs == {0, 1}

-----------------------------------------------------------------------------
(* Keys: mounted ones with a key id or without, and incomplete, unreadable or *)
(* unsupported configurations                                                 *)

NoFile == [id |-> "", file |-> ""]
Named(id, file) == [id |-> id, file |-> file]

DevConfig == [mode |-> "", audit |-> NoFile, ssh |-> NoFile, membership |-> NoFile, service |-> NoFile]

Mounted(audit, ssh, membership, service) ==
  [ mode |-> "kms_vault", audit |-> audit, ssh |-> Named("", ssh), membership |-> membership,
    service |-> service ]

MCConfigs ==
  { DevConfig,
    Mounted(Named("a1", "k1"), "rsa", Named("v1", "k2"), Named("", "k3")),
    Mounted(Named("a2", "k4"), "k5", Named("v2", "k6"), Named("s1", "unreadable")),
    Mounted(Named("", "k1"), "rsa", Named("", "k7"), NoFile),        \* no audit key id
    Mounted(Named("a3", "rsa"), "k5", Named("v4", "unreadable"), NoFile),
    [Mounted(Named("a1", "k1"), "rsa", Named("v1", "k2"), NoFile) EXCEPT !.mode = "hsm"] }

\* Rotations that never set a membership key id.
Unnamed == { Mounted(NoFile, "", Named("", "k1"), NoFile), Mounted(NoFile, "", Named("", "k2"), NoFile) }

-----------------------------------------------------------------------------
MembershipInit ==
  \/ part = "fence" /\ FenceInit /\ RingInit /\ cfg = DevConfig
  \/ part = "keys" /\ FenceInit /\ RingInit

MembershipNext ==
  /\ UNCHANGED part
  /\ \/ part = "fence" /\ FenceNext /\ UNCHANGED ringVars
     \/ part = "keys" /\ RingNext /\ UNCHANGED fenceVars

MembershipSpec == MembershipInit /\ [][MembershipNext]_membershipVars

=============================================================================
