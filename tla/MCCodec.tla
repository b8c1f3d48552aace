------------------------------ MODULE MCCodec ------------------------------
(***************************************************************************)
(* Codec with bytes of eight values: a u16 wraps at 64, and a datagram      *)
(* holds 63 bytes.                                                          *)
(***************************************************************************)
EXTENDS Codec

Top(w) == Base ^ w - 1
Guids == {1, Top(GuidSize)}
Longs == {1, Top(U64)}

Origins == {NoTrailer, [has_origin |-> TRUE, origin_guid |-> 9, origin_seq |-> Top(U64)]}
Payloads == {<<>>, <<0>>, <<1, 2, 0, 3>>}

DataMessages ==
  {[type |-> "DATA", flags |-> f, payload |-> p, trailer |-> t,
    fields |-> [writer |-> w, seq |-> s, pub_time_ms |-> 77, payload_len |-> Len(p)]] :
      f \in {0, 1}, w \in Guids, s \in Longs, p \in Payloads, t \in Origins}

FragMessages ==
  {[type |-> "DATA_FRAG", flags |-> 1, payload |-> p, trailer |-> t,
    fields |-> [writer |-> w, seq |-> s, pub_time_ms |-> 77, total_size |-> o + Len(p) + r,
                frag_offset |-> o, payload_len |-> Len(p)]] :
      w \in Guids, s \in Longs, o \in {0, 70}, r \in {0, 5},
      p \in Payloads \ {<<>>}, t \in Origins}

Control(type, fields) == [type |-> type, fields |-> fields]

ControlMessages ==
  {Control("ACKNACK", [reader |-> r, writer |-> w, base_seq |-> s, bitmap |-> b]) :
      r, w \in Guids, s, b \in Longs}
    \cup {Control("HEARTBEAT", [writer |-> w, first_seq |-> s, last_seq |-> b]) :
      w \in Guids, s, b \in Longs}
    \cup {Control("GAP", [writer |-> w, reader |-> r, gap_start |-> s, gap_end |-> b]) :
      w, r \in Guids, s, b \in Longs}

Zeros(n) == [i \in 1 .. n |-> 0]
Names == {<<>>, <<0, 0>>, <<6, 1, 7>>}
NodeLists ==
  {<<>>} \cup {<<<<n, m>>>> : n, m \in Names \cup {Zeros(64), Zeros(66)}}
    \cup {<<<<n, <<1>>>>, <<m, <<>>>>>> : n, m \in Names}
    \cup {[i \in 1 .. 64 |-> <<<<>>, <<>>>>]}
EndpointLists ==
  {<<>>} \cup {<<<<9, k, n, <<0>>, 1, 0, 1, 0, 10, 0, Top(U64), 3, 100>>>> :
                 k \in {1, 2}, n \in Names}

AnnounceMessages ==
  {[type |-> "ANNOUNCE", guid |-> 1, announce_seq |-> s, nodes |-> n, endpoints |-> e] :
      s \in Longs, n \in NodeLists, e \in EndpointLists}

AllMessages == DataMessages \cup FragMessages \cup ControlMessages \cup AnnounceMessages

\* Unknown entries, known ones of a length that is not theirs, and known ones.
SomeEntries ==
  {<<Tlv(3, <<1, 2>>)>>, <<Tlv(7, <<>>), Tlv(2, Put(U64, 55))>>,
   <<Tlv(1, <<1>>), Tlv(1, <<1, 2>>)>>}
SomeRests == {<<>>, <<1>>, <<2, 4, 1>>}
=============================================================================
