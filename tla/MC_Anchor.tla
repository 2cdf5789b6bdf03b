------------------------------ MODULE MC_Anchor ------------------------------
(***************************************************************************)
(* Instances of Anchor for TLC.                                            *)
(***************************************************************************)
EXTENDS Anchor, TLC

CONSTANTS k1, k2, k3, zsk

\* The embedded key is revoked and withdrawn while its successor, and a ZSK,
\* come and go.
MC_Rollover ==
    {<<k1, "signing", "revoked">>, <<k1, "revoked", "absent">>,
     <<k2, "absent", "standby">>, <<k2, "standby", "signing">>,
     <<k2, "standby", "absent">>, <<zsk, "absent", "standby">>}

\* Two embedded keys.  One signs all along, the other is revoked and perhaps
\* withdrawn; a third is published for good.
MC_OneRevokedOneAdded ==
    {<<k1, "signing", "revoked">>, <<k1, "revoked", "absent">>,
     <<k3, "absent", "standby">>}

MC_NoOperator == {}
MC_OperatorKeepsK1 == {{k1}}
=============================================================================
