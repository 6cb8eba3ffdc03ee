---------------------------- MODULE MCAckTracker ----------------------------
(* The acknowledgement tracker on two messages and scaled-down times.      *)
EXTENDS AckTracker

\* The breaker may block the channel after mesh, or nothing.
MCBlockedSets == {{}, {"gossip"}}

MCBackoff == [r \in 0..MAX_RETRIES |-> r]
=============================================================================
