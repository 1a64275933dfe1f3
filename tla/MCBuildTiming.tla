---------------------------- MODULE MCBuildTiming ----------------------------
EXTENDS BuildTiming

MCCalls == {[label |-> "clean", command |-> "make"], [label |-> "bytes", command |-> "make"],
            [label |-> "clean", command |-> "bytes"]}
MCFirstWrites ==
  {<<>>} \cup {<<Foreign("record", ended)>> : ended \in BOOLEAN}
  \cup {<<Foreign("record", TRUE), Foreign(text, TRUE)>> : text \in {"garbage", "fieldless", "atom", "unconvertible"}}
MCCodes == {0, 7, -9}

=============================================================================
