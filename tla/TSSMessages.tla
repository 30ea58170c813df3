----------------------------- MODULE TSSMessages -----------------------------
(***************************************************************************)
(* The messages of message.proto and signer.proto, as their generated code *)
(* handles them. For every message M there are                             *)
(*    M            the zero value, which is also what getters return of nil *)
(*    M_Marshal    what MarshalToSizedBuffer writes, last field first there *)
(*    M_Size       the size of the buffer Marshal allocates                *)
(*    M_Unmarshal  its fields by number, as the switch of Unmarshal reads  *)
(*                 them                                                    *)
(* A pointer to a message is a sequence: empty for nil.                    *)
(***************************************************************************)
EXTENDS ProtobufWire

Each(Op(_), list) == [i \in DOMAIN list |-> Op(list[i])]

TSSProtocolMessage ==
    [SenderID |-> <<>>, Payload |-> <<>>, IsBroadcast |-> FALSE, SessionID |-> <<>>]
TSSProtocolMessage_Marshal(m) ==
    BytesField(1, m.SenderID) \o BytesField(2, m.Payload) \o BoolField(3, m.IsBroadcast)
        \o BytesField(4, m.SessionID)
TSSProtocolMessage_Size(m) ==
    BytesSize(m.SenderID) + BytesSize(m.Payload) + BoolSize(m.IsBroadcast) + BytesSize(m.SessionID)
TSSProtocolMessage_Unmarshal ==
    <<Bytes("SenderID"), Bytes("Payload"), Bool("IsBroadcast"), Bytes("SessionID")>>

ReadyMessage == [SenderID |-> <<>>]
ReadyMessage_Marshal(m) == BytesField(1, m.SenderID)
ReadyMessage_Size(m) == BytesSize(m.SenderID)
ReadyMessage_Unmarshal == <<Bytes("SenderID")>>

AnnounceMessage == [SenderID |-> <<>>]
AnnounceMessage_Marshal(m) == BytesField(1, m.SenderID)
AnnounceMessage_Size(m) == BytesSize(m.SenderID)
AnnounceMessage_Unmarshal == <<Bytes("SenderID")>>

RecoveryMessage == [SenderID |-> <<>>, BtcRecoveryAddress |-> <<>>, MaxFeePerVByte |-> 0]
RecoveryMessage_Marshal(m) ==
    BytesField(1, m.SenderID) \o BytesField(2, m.BtcRecoveryAddress) \o IntField(3, m.MaxFeePerVByte)
RecoveryMessage_Size(m) ==
    BytesSize(m.SenderID) + BytesSize(m.BtcRecoveryAddress) + IntSize(m.MaxFeePerVByte)
RecoveryMessage_Unmarshal ==
    <<Bytes("SenderID"), Bytes("BtcRecoveryAddress"), Int32("MaxFeePerVByte")>>

GroupInfo ==
    [GroupID |-> <<>>, MemberID |-> <<>>, GroupMemberIDs |-> <<>>, DishonestThreshold |-> 0]
GroupInfo_Marshal(m) ==
    BytesField(1, m.GroupID) \o BytesField(2, m.MemberID) \o ListField(3, m.GroupMemberIDs)
        \o IntField(4, m.DishonestThreshold)
GroupInfo_Size(m) ==
    BytesSize(m.GroupID) + BytesSize(m.MemberID) + ListSize(Lengths(m.GroupMemberIDs))
        + IntSize(m.DishonestThreshold)
GroupInfo_Unmarshal ==
    <<Bytes("GroupID"), Bytes("MemberID"), BytesList("GroupMemberIDs"), Int32("DishonestThreshold")>>

ThresholdSigner == [GroupInfo |-> <<>>, ThresholdKey |-> <<>>]
ThresholdSigner_Marshal(m) ==
    ListField(1, Each(GroupInfo_Marshal, m.GroupInfo)) \o BytesField(2, m.ThresholdKey)
ThresholdSigner_Size(m) ==
    ListSize(Each(GroupInfo_Size, m.GroupInfo)) + BytesSize(m.ThresholdKey)
ThresholdSigner_Unmarshal == <<Message("GroupInfo", "GroupInfo"), Bytes("ThresholdKey")>>

PrivateKey == [PublicKey |-> <<>>, LambdaN |-> <<>>, PhiN |-> <<>>]
PrivateKey_Marshal(m) ==
    BytesField(1, m.PublicKey) \o BytesField(2, m.LambdaN) \o BytesField(3, m.PhiN)
PrivateKey_Size(m) == BytesSize(m.PublicKey) + BytesSize(m.LambdaN) + BytesSize(m.PhiN)
PrivateKey_Unmarshal == <<Bytes("PublicKey"), Bytes("LambdaN"), Bytes("PhiN")>>

LocalPreParams ==
    [PaillierSK |-> <<>>, NTilde |-> <<>>, H1I |-> <<>>, H2I |-> <<>>,
     Alpha |-> <<>>, Beta |-> <<>>, P |-> <<>>, Q |-> <<>>]
LocalPreParams_Marshal(m) ==
    ListField(1, Each(PrivateKey_Marshal, m.PaillierSK)) \o BytesField(2, m.NTilde)
        \o BytesField(3, m.H1I) \o BytesField(4, m.H2I) \o BytesField(5, m.Alpha)
        \o BytesField(6, m.Beta) \o BytesField(7, m.P) \o BytesField(8, m.Q)
LocalPreParams_Size(m) ==
    ListSize(Each(PrivateKey_Size, m.PaillierSK)) + BytesSize(m.NTilde) + BytesSize(m.H1I)
        + BytesSize(m.H2I) + BytesSize(m.Alpha) + BytesSize(m.Beta) + BytesSize(m.P) + BytesSize(m.Q)
LocalPreParams_UnmarshalParams ==
    <<Message("PaillierSK", "PrivateKey"), Bytes("NTilde"), Bytes("H1I")>>
LocalPreParams_UnmarshalProofs ==
    <<Bytes("H2I"), Bytes("Alpha"), Bytes("Beta"), Bytes("P"), Bytes("Q")>>

LocalSecrets == [Xi |-> <<>>, ShareID |-> <<>>]
LocalSecrets_Marshal(m) == BytesField(1, m.Xi) \o BytesField(2, m.ShareID)
LocalSecrets_Size(m) == BytesSize(m.Xi) + BytesSize(m.ShareID)
LocalSecrets_Unmarshal == <<Bytes("Xi"), Bytes("ShareID")>>

ECPoint == [X |-> <<>>, Y |-> <<>>]
ECPoint_Marshal(m) == BytesField(1, m.X) \o BytesField(2, m.Y)
ECPoint_Size(m) == BytesSize(m.X) + BytesSize(m.Y)
ECPoint_Unmarshal == <<Bytes("X"), Bytes("Y")>>

LocalPartySaveData ==
    [LocalPreParams |-> <<>>, LocalSecrets |-> <<>>, Ks |-> <<>>, NTildej |-> <<>>, H1J |-> <<>>,
     H2J |-> <<>>, BigXj |-> <<>>, PaillierPKs |-> <<>>, EcdsaPub |-> <<>>]
LocalPartySaveData_Marshal(m) ==
    ListField(1, Each(LocalPreParams_Marshal, m.LocalPreParams))
        \o ListField(2, Each(LocalSecrets_Marshal, m.LocalSecrets))
        \o ListField(3, m.Ks) \o ListField(4, m.NTildej) \o ListField(5, m.H1J) \o ListField(6, m.H2J)
        \o ListField(7, Each(ECPoint_Marshal, m.BigXj)) \o ListField(8, m.PaillierPKs)
        \o ListField(9, Each(ECPoint_Marshal, m.EcdsaPub))
LocalPartySaveData_Size(m) ==
    ListSize(Each(LocalPreParams_Size, m.LocalPreParams)) + ListSize(Each(LocalSecrets_Size, m.LocalSecrets))
        + ListSize(Lengths(m.Ks)) + ListSize(Lengths(m.NTildej)) + ListSize(Lengths(m.H1J))
        + ListSize(Lengths(m.H2J)) + ListSize(Each(ECPoint_Size, m.BigXj))
        + ListSize(Lengths(m.PaillierPKs)) + ListSize(Each(ECPoint_Size, m.EcdsaPub))
LocalPartySaveData_UnmarshalOwn ==
    <<Message("LocalPreParams", "LocalPreParams"), Message("LocalSecrets", "LocalSecrets"), BytesList("Ks")>>
LocalPartySaveData_UnmarshalParameters ==
    <<BytesList("NTildej"), BytesList("H1J"), BytesList("H2J")>>
LocalPartySaveData_UnmarshalKeys ==
    <<MessageList("BigXj", "ECPoint"), BytesList("PaillierPKs"), Message("EcdsaPub", "ECPoint")>>

Zero ==
    [TSSProtocolMessage |-> TSSProtocolMessage, ReadyMessage |-> ReadyMessage,
     AnnounceMessage |-> AnnounceMessage, RecoveryMessage |-> RecoveryMessage,
     ThresholdSigner |-> ThresholdSigner, GroupInfo |-> GroupInfo,
     LocalPartySaveData |-> LocalPartySaveData, LocalPreParams |-> LocalPreParams,
     PrivateKey |-> PrivateKey, LocalSecrets |-> LocalSecrets, ECPoint |-> ECPoint]

FieldsOf ==
    [TSSProtocolMessage |-> TSSProtocolMessage_Unmarshal, ReadyMessage |-> ReadyMessage_Unmarshal,
     AnnounceMessage |-> AnnounceMessage_Unmarshal, RecoveryMessage |-> RecoveryMessage_Unmarshal,
     ThresholdSigner |-> ThresholdSigner_Unmarshal, GroupInfo |-> GroupInfo_Unmarshal,
     LocalPartySaveData |-> LocalPartySaveData_UnmarshalOwn \o LocalPartySaveData_UnmarshalParameters
                            \o LocalPartySaveData_UnmarshalKeys,
     LocalPreParams |-> LocalPreParams_UnmarshalParams \o LocalPreParams_UnmarshalProofs,
     PrivateKey |-> PrivateKey_Unmarshal, LocalSecrets |-> LocalSecrets_Unmarshal,
     ECPoint |-> ECPoint_Unmarshal]
=============================================================================
