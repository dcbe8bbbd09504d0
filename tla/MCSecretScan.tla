---------------------------- MODULE MCSecretScan ----------------------------
(***************************************************************************)
(* SecretScan on every text of up to four tokens, and on two or three      *)
(* files of assignments and matches.                                       *)
(***************************************************************************)
EXTENDS SecretScan

Short == {<<"key", "val">>, <<"nl", "key", "hcval">>, <<"sp", "hc">>,
          <<"key", "val", "nl", "sp", "key", "nl", "val">>, <<"key", "ph">>,
          <<"key", "val", "nl", "x", "sp", "hc", "x">>}

AllFileSets ==
  {<<t>> : t \in UNION {[1..n -> Tokens] : n \in 0..4}}
    \cup {<<s, t>> : s, t \in Short} \cup {<<s, t, u>> : s, t, u \in Short}
=============================================================================
