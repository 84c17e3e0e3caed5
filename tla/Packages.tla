------------------------------ MODULE Packages ------------------------------
(***************************************************************************)
(* MIP packages: their headers, the length of their payload in words, and  *)
(* what of them a raw socket hands over.  A payload is its number of       *)
(* bytes; kept is how many of them are still the sender's.                 *)
(***************************************************************************)
EXTENDS Integers, FiniteSetsExt, SequencesExt

CONSTANTS
  Address,   \* the MIP addresses in use
  Word,      \* MIP_PAYLOAD_WORD (4)
  MaxWords,  \* PAYLOAD_MAX_WORD_NUM (374)
  Struct,    \* sizeof(MIPPackage) (26), sent in front of the payload
  RecvMax,   \* MIP_PACKAGE_MAX_SIZE (188)
  Prefix,    \* bytes in front of the data of a serialised MIPDMessage (3)
  MinMessage,\* sizeof(MIPDMessage) (16)
  MaxData,   \* MAX_MIPMESSAGE_DATA_SIZE (1496), also what one recv takes
  MaxMessage \* MAX_MIPMESSAGE_SIZE (1500)

ASSUME PackagesAssumption ==
  /\ Address \subseteq 0 .. 254
  /\ {Word, MaxWords} \subseteq Nat \ {0}
  /\ {Struct, RecvMax, Prefix, MinMessage, MaxData, MaxMessage} \subseteq Nat
  /\ Struct <= RecvMax /\ MaxData <= Word * MaxWords
  /\ RecvMax - Struct <= MaxData - Prefix

-----------------------------------------------------------------------------
(* Headers *)

create_arp_request_mip_header(src) == [tra |-> 1, ttl |-> 15, dst |-> 255, src |-> src]

create_transport_mip_header(src, dst) ==
  [create_arp_request_mip_header(src) EXCEPT !.tra = 3, !.dst = dst]

Header == [tra : {0, 1, 3}, ttl : {15}, dst : Address \cup {255}, src : Address]

-----------------------------------------------------------------------------
(* Packages *)

\* Faulty variant: a last word that is not full is left out.
WholeWords(size) == size \div Word

calculate_mip_payload_words(size) ==
  size \div Word + IF size % Word = 0 THEN 0 ELSE 1

MIPPackage == [header : Header, words : 0 .. MaxWords, size : Nat, kept : Nat]

\* A package with size bytes of payload, of which the first kept are those meant.
\* The check that the payload has at most PAYLOAD_MAX_WORD_NUM words is left out: what
\* DeserializeFails lets through, and a route table, is within that.
MIPPackage_create(header, size, kept) ==
  LET words == calculate_mip_payload_words(size)
  IN [header |-> header, words |-> words, size |-> size,
      kept |-> Min({kept, words * Word})]

MIPPackage_create_raw(src, dst, tra) ==
  MIPPackage_create([create_transport_mip_header(src, dst) EXCEPT !.tra = tra], 0, 0)

MIPPackage_create_mip_arp_request_packet(src) ==
  MIPPackage_create(create_arp_request_mip_header(src), 0, 0)

\* The buffer is shorter than the longest package: what follows its end is read from
\* the memory behind it.
recv_raw_mip_package(p) == [p EXCEPT !.kept = Min({@, RecvMax - Struct})]

-----------------------------------------------------------------------------
(* Messages between applications and their daemon *)

MIPDMessage == [mip_address : Address, size : Nat, kept : Nat]

\* A message of size bytes of data, all of them meant.
MIPDMessage_create(address, size) == [mip_address |-> address, size |-> size, kept |-> size]

calc_serialized_message_size(m) == Prefix + m.size

\* What is written of a message: nothing of one that is too long.
MIPDMessage_serialize(m) ==
  IF calc_serialized_message_size(m) <= MaxMessage THEN <<m>> ELSE <<>>

\* What one recv takes of a stream of messages.
Received(ms) ==
  LET bytes[k \in 0 .. Len(ms)] ==
        IF k = 0 THEN 0 ELSE bytes[k - 1] + calc_serialized_message_size(ms[k])
  IN Min({MaxData, bytes[Len(ms)]})
TooShort(ms) == Received(ms) < MinMessage

\* Faulty variant: no message is too long.
NeverFails(size) == FALSE

DeserializeFails(size) == size > MaxData

\* The first of the messages that were read; the buffer is zero beyond what was taken.
MIPDMessage_deserialize(ms) ==
  [Head(ms) EXCEPT !.kept = Min({@, Received(ms) - Prefix})]

\* A package as the message that its receiver's application is given: the payload
\* with what fills its last word.
MIPDMessageOf(p) == [mip_address |-> p.header.src, size |-> p.words * Word, kept |-> p.kept]
=============================================================================
