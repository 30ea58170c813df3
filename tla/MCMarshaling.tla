---------------------------- MODULE MCMarshaling ----------------------------
(***************************************************************************)
(* Marshaling for TLC: words of 22 bits and integers of 11, lengths around *)
(* the first boundary of a varint, and keys with zeros in their lists.     *)
(***************************************************************************)
EXTENDS Marshaling

MCBytes(n) == [i \in 1..n |-> (7 * i) % 256]

MCProtocolMessages ==
    [SenderID : {<<0>>}, Payload : {<<>>, <<8, 1>>} \cup {MCBytes(n) : n \in {127, 128}},
     IsBroadcast : BOOLEAN, SessionID : {<<65>>}]
MCRecoveryMessages ==
    [SenderID : {<<1>>}, BtcRecoveryAddress : {<<>>, <<66>>},
     MaxFeePerVByte : {0, 1, 127, 128, 1023, -1, -128, -1024}]

MCKey(list, point) ==
    [N |-> 300, LambdaN |-> 1, PhiN |-> 2, NTildei |-> 0, H1i |-> 3, H2i |-> 255, Alpha |-> 4,
     Beta |-> 0, P |-> 5, Q |-> 256, Xi |-> 6, ShareID |-> 0, Ks |-> list, NTildej |-> list,
     H1j |-> list, H2j |-> <<>>, BigXj |-> <<point, point>>, PaillierPKs |-> list, ECDSAPub |-> point]
MCSigners ==
    [groupID : {<<>>, <<71>>}, memberID : {<<1>>}, groupMemberIDs : {<<>>, <<<<1>>, <<2>>>>},
     dishonestThreshold : {0, 2}, thresholdKey : {MCKey(<<0, 7>>, [x |-> 0, y |-> 1]),
                                                  MCKey(<<>>, [x |-> 9, y |-> 0])}]

MCInputs ==
    [kind : {"TSSProtocolMessage"}, value : MCProtocolMessages]
        \cup [kind : {"ReadyMessage", "AnnounceMessage"}, value : [SenderID : {<<>>, <<1, 2>>}]]
        \cup [kind : {"RecoveryMessage"}, value : MCRecoveryMessages]
        \cup [kind : {"ThresholdSigner"}, value : MCSigners]

\* A varint, eight bytes, a string, four bytes, a group with a string and a group in it.
MCElement(n, type, bytes) == [num |-> n, wireType |-> type, content |-> bytes]
MCAdditions ==
    {<<MCElement(15, 0, <<130, 1>>)>>, <<MCElement(15, 1, <<1, 2, 3, 4, 5, 6, 7, 8>>)>>,
     <<MCElement(20, 2, <<10, 3>>)>>, <<MCElement(15, 5, <<1, 2, 3, 4>>)>>,
     <<MCElement(15, 3, <<>>), MCElement(1, 2, <<4>>), MCElement(2, 3, <<>>), MCElement(2, 4, <<>>),
       MCElement(15, 4, <<>>)>>}
MCOtherBytes == {0, 127, 255}
=============================================================================
