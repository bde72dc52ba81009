---------------------------- MODULE TBulkTransport ----------------------------
(***************************************************************************)
(* threading::transports::TBulk<T>, the triple-buffered latest-state       *)
(* transport.  The producer edits the payload producer_data() points to    *)
(* and publish()es it; the consumer swaps its payload for the newest       *)
(* publication with discard_and_acquire().  The staging word is 0 once the *)
(* consumer has acquired, index + 1 for a publication and 4 at first.      *)
(***************************************************************************)
EXTENDS Naturals

CONSTANT Versions   \* the contents the producer writes into a payload

VARIABLES payload,                  \* m_data
          output, staged, locked,   \* the producer's three roles
          consumer,                 \* m_consumer_payload_index
          staged_word,
          acquired                  \* what the consumer's payload held when acquired

vars == <<payload, output, staged, locked, consumer, staged_word, acquired>>

Payloads    == 0..2
NullPayload == 3
NullWord    == NullPayload + 1

Init == /\ payload \in {[i \in Payloads |-> v] : v \in Versions}
        /\ output = 0
        /\ staged = 1
        /\ locked = 2
        /\ consumer = NullPayload
        /\ staged_word = NullWord
        /\ acquired = payload[0]

\* The producer modifies the payload it was told it may modify.
Write(v) == /\ payload' = [payload EXCEPT ![output] = v]
            /\ UNCHANGED <<output, staged, locked, consumer, staged_word, acquired>>

\* One exchange, then the roles.  In the first case the code assigns the
\* locked role first and then takes the output role from it.
publish == /\ staged_word' = output + 1
           /\ locked' = IF staged_word = 0 THEN staged ELSE locked
           /\ output' = IF staged_word = 0 THEN locked' ELSE staged
           /\ staged' = output
           /\ UNCHANGED <<payload, consumer, acquired>>

discard_and_acquire ==
  /\ staged_word' = 0
  /\ consumer' = IF staged_word % 4 # 0 THEN staged_word - 1 ELSE NullPayload
  /\ acquired' = IF consumer' # NullPayload THEN payload[consumer'] ELSE acquired
  /\ UNCHANGED <<payload, output, staged, locked>>

Next == \/ \E v \in Versions : Write(v)
        \/ publish
        \/ discard_and_acquire

Spec == Init /\ [][Next]_vars

\* "There is no ... overwrite of consumer-held data" (TBulkTransport.hpp): what
\* consumer_data() points to stays what was acquired until the consumer gives
\* it up, whatever the producer writes and publishes meanwhile.
ConsumerPayloadKept == consumer # NullPayload => payload[consumer] = acquired
==============================================================================
