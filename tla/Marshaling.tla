----------------------------- MODULE Marshaling -----------------------------
(***************************************************************************)
(* A message or a signer is marshalled, travels over the network or is     *)
(* kept in a file, and is unmarshalled, one field per step as the loop of  *)
(* the generated Unmarshal does. On the way the bytes may lose their end   *)
(* (a file that was not written completely), may have one byte changed,    *)
(* and may hold a field that a later version of the client added.          *)
(***************************************************************************)
EXTENDS TSSMessages

CONSTANTS
    Inputs,         \* [kind, value] of what is marshalled
    Additions,      \* fields this version does not know, as their elements
    OtherBytes      \* what a changed byte may become

VARIABLES
    input,
    dAtA,       \* the bytes on their way
    damage,     \* what happened to them
    phase,
    stack,      \* calls of Unmarshal that are running, the innermost last
    received    \* what the handwritten Unmarshal returned

wireVars == <<input, dAtA, damage, phase, stack, received>>

MessageKinds == {"TSSProtocolMessage", "ReadyMessage", "AnnounceMessage", "RecoveryMessage"}
Pending == [kind |-> "none"]

\* A running Unmarshal: what it fills, what it reads and where, whether it skips
\* a field and how deep in groups, and where its caller continues.
Call(msgKind, msg, data, fieldName, post) ==
    [kind |-> msgKind, m |-> msg, data |-> data, iNdEx |-> 0, skipping |-> FALSE, depth |-> 0,
     into |-> fieldName, postIndex |-> post]

Top == Last(stack)
Replace(call) == stack' = Append(Front(stack), call)

WireInit ==
    /\ input \in Inputs
    /\ dAtA = <<>> /\ damage = {} /\ phase = "marshal" /\ stack = <<>> /\ received = Pending

----------------------------------------------------------------------------
(* The handwritten Marshal and Unmarshal. *)

\* The generated Marshal fills a buffer of the computed size from its end.
Buffer(size, content) ==
    SubSeq([i \in 1..(size - Len(content)) |-> 0] \o content, 1, Len(content))

\* big.Int.Bytes and SetBytes: the highest byte first, and no leading zeros.
BigBytes(n) ==
    LET k == CHOOSE l \in 0..n : n < 2^(8 * l) /\ (l = 0 \/ n >= 2^(8 * (l - 1)))
    IN [i \in 1..k |-> (n \div 2^(8 * (k - i))) % 256]
SetBytes(b) == FoldLeft(LAMBDA n, d : 256 * n + d, 0, b)

ThresholdKey_Marshal(tk) ==
    [LocalPreParams |-> <<[PaillierSK |-> <<[PublicKey |-> BigBytes(tk.N), LambdaN |-> BigBytes(tk.LambdaN),
                                            PhiN |-> BigBytes(tk.PhiN)]>>,
                           NTilde |-> BigBytes(tk.NTildei), H1I |-> BigBytes(tk.H1i), H2I |-> BigBytes(tk.H2i),
                           Alpha |-> BigBytes(tk.Alpha), Beta |-> BigBytes(tk.Beta),
                           P |-> BigBytes(tk.P), Q |-> BigBytes(tk.Q)]>>,
     LocalSecrets |-> <<[Xi |-> BigBytes(tk.Xi), ShareID |-> BigBytes(tk.ShareID)]>>,
     Ks |-> Each(BigBytes, tk.Ks), NTildej |-> Each(BigBytes, tk.NTildej),
     H1J |-> Each(BigBytes, tk.H1j), H2J |-> Each(BigBytes, tk.H2j),
     BigXj |-> [i \in DOMAIN tk.BigXj |-> [X |-> BigBytes(tk.BigXj[i].x), Y |-> BigBytes(tk.BigXj[i].y)]],
     PaillierPKs |-> Each(BigBytes, tk.PaillierPKs),
     EcdsaPub |-> <<[X |-> BigBytes(tk.ECDSAPub.x), Y |-> BigBytes(tk.ECDSAPub.y)]>>]

Signer_Marshal(s) ==
    [GroupInfo |-> <<[GroupID |-> s.groupID, MemberID |-> s.memberID, GroupMemberIDs |-> s.groupMemberIDs,
                      DishonestThreshold |-> Signed(s.dishonestThreshold, IntBits)]>>,
     ThresholdKey |-> LET pb == ThresholdKey_Marshal(s.thresholdKey)
                      IN Buffer(LocalPartySaveData_Size(pb), LocalPartySaveData_Marshal(pb))]

\* A getter of a pointer that may be nil.
Get(pointer, kind) == IF pointer = <<>> THEN Zero[kind] ELSE pointer[1]

NewECPoint(p) == [x |-> SetBytes(p.X), y |-> SetBytes(p.Y)]
OnCurve(p) == p # [x |-> 0, y |-> 0]

\* Mutant of Decodes: the point of the group is not looked at.
DecodesAny(data) == \A i \in DOMAIN data.BigXj : OnCurve(NewECPoint(data.BigXj[i]))

\* The points of the key are on the curve: otherwise Unmarshal returns an error.
Decodes(data) ==
    /\ \A i \in DOMAIN data.BigXj : OnCurve(NewECPoint(data.BigXj[i]))
    /\ OnCurve(NewECPoint(Get(data.EcdsaPub, "ECPoint")))

ThresholdKey_Unmarshal(data) ==
    LET pre == Get(data.LocalPreParams, "LocalPreParams")
        sk == Get(pre.PaillierSK, "PrivateKey")
        secrets == Get(data.LocalSecrets, "LocalSecrets")
    IN [N |-> SetBytes(sk.PublicKey), LambdaN |-> SetBytes(sk.LambdaN), PhiN |-> SetBytes(sk.PhiN),
        NTildei |-> SetBytes(pre.NTilde), H1i |-> SetBytes(pre.H1I), H2i |-> SetBytes(pre.H2I),
        Alpha |-> SetBytes(pre.Alpha), Beta |-> SetBytes(pre.Beta),
        P |-> SetBytes(pre.P), Q |-> SetBytes(pre.Q),
        Xi |-> SetBytes(secrets.Xi), ShareID |-> SetBytes(secrets.ShareID),
        Ks |-> Each(SetBytes, data.Ks), NTildej |-> Each(SetBytes, data.NTildej),
        H1j |-> Each(SetBytes, data.H1J), H2j |-> Each(SetBytes, data.H2J),
        BigXj |-> Each(NewECPoint, data.BigXj), PaillierPKs |-> Each(SetBytes, data.PaillierPKs),
        ECDSAPub |-> NewECPoint(Get(data.EcdsaPub, "ECPoint"))]

Signer_Unmarshal(info, key) ==
    [groupID |-> info.GroupID, memberID |-> info.MemberID, groupMemberIDs |-> info.GroupMemberIDs,
     dishonestThreshold |-> info.DishonestThreshold, thresholdKey |-> key]

----------------------------------------------------------------------------
(* Marshal, and what may happen to the bytes. *)

Encoded(in) ==
    LET v == in.value IN
    CASE in.kind = "TSSProtocolMessage" -> Buffer(TSSProtocolMessage_Size(v), TSSProtocolMessage_Marshal(v))
      [] in.kind = "ReadyMessage" -> Buffer(ReadyMessage_Size(v), ReadyMessage_Marshal(v))
      [] in.kind = "AnnounceMessage" -> Buffer(AnnounceMessage_Size(v), AnnounceMessage_Marshal(v))
      [] in.kind = "RecoveryMessage" -> Buffer(RecoveryMessage_Size(v), RecoveryMessage_Marshal(v))
      [] in.kind = "ThresholdSigner" ->
            LET pb == Signer_Marshal(v) IN Buffer(ThresholdSigner_Size(pb), ThresholdSigner_Marshal(pb))

\* A field is one element, or a group: elements between its start and its end. An
\* element is a varint, eight or four bytes, a string, or such a start or end.
Elements ==
    {e \in [num : 1..(2^(IntBits - 3) - 1), wireType : 0..5, content : Seq(Byte)] :
        CASE e.wireType = 0 -> /\ Len(e.content) \in 1..Groups
                               /\ \A i \in DOMAIN e.content : e.content[i] < 128 <=> i = Len(e.content)
          [] e.wireType = 1 -> Len(e.content) = 8
          [] e.wireType = 2 -> TRUE
          [] e.wireType = 5 -> Len(e.content) = 4
          [] OTHER -> e.content = <<>>}
ElementBytes(e) ==
    encodeVarint(8 * e.num + e.wireType)
        \o (IF e.wireType = 2 THEN encodeVarint(Len(e.content)) ELSE <<>>) \o e.content
FieldBytes(field) == FlattenSeq(Each(ElementBytes, field))
Depth(field, n) ==
    Cardinality({i \in 1..n : field[i].wireType = 3}) - Cardinality({i \in 1..n : field[i].wireType = 4})
UnknownFields ==
    {field \in Seq(Elements) :
        /\ field # <<>> /\ \A kind \in DOMAIN FieldsOf : field[1].num \notin DOMAIN FieldsOf[kind]
        /\ Depth(field, Len(field)) = 0 /\ \A n \in 1..(Len(field) - 1) : Depth(field, n) > 0}

\* What is marshalled: messages, and signers whose points are on the curve. Their
\* encoding has a length that an int can hold.
Points == [x : Nat, y : Nat]
Keys ==
    [N : Nat, LambdaN : Nat, PhiN : Nat, NTildei : Nat, H1i : Nat, H2i : Nat, Alpha : Nat, Beta : Nat,
     P : Nat, Q : Nat, Xi : Nat, ShareID : Nat, Ks : Seq(Nat), NTildej : Seq(Nat), H1j : Seq(Nat),
     H2j : Seq(Nat), BigXj : Seq(Points), PaillierPKs : Seq(Nat), ECDSAPub : Points]
Signers ==
    [groupID : Seq(Byte), memberID : Seq(Byte), groupMemberIDs : Seq(Seq(Byte)),
     dishonestThreshold : Int32s, thresholdKey : Keys]
ValuesOf ==
    [TSSProtocolMessage |-> [SenderID : Seq(Byte), Payload : Seq(Byte), IsBroadcast : BOOLEAN,
                             SessionID : Seq(Byte)],
     ReadyMessage |-> [SenderID : Seq(Byte)], AnnounceMessage |-> [SenderID : Seq(Byte)],
     RecoveryMessage |-> [SenderID : Seq(Byte), BtcRecoveryAddress : Seq(Byte), MaxFeePerVByte : Int32s],
     ThresholdSigner |-> {s \in Signers : /\ OnCurve(s.thresholdKey.ECDSAPub)
                                          /\ \A i \in DOMAIN s.thresholdKey.BigXj :
                                                OnCurve(s.thresholdKey.BigXj[i])}]

ASSUME WireAssumption ==
    /\ Additions \subseteq UnknownFields /\ OtherBytes \subseteq Byte
    /\ \A in \in Inputs : /\ in.kind \in DOMAIN ValuesOf /\ in.value \in ValuesOf[in.kind]
                          /\ in = [kind |-> in.kind, value |-> in.value]
                          /\ Len(Encoded(in)) < 2^(WordBits - 1)
                          /\ \A field \in Additions : Len(Encoded(in)) + Len(FieldBytes(field)) < 2^(WordBits - 1)

Marshal ==
    /\ phase = "marshal"
    /\ dAtA' = Encoded(input) /\ phase' = "transfer"
    /\ UNCHANGED <<input, damage, stack, received>>

\* What may happen to the bytes; each kind of damage at most once.
Add ==
    /\ phase = "transfer" /\ damage = {}
    /\ \E field \in Additions : \E before \in BOOLEAN :
          dAtA' = IF before THEN FieldBytes(field) \o dAtA ELSE dAtA \o FieldBytes(field)
    /\ damage' = {"added"} /\ UNCHANGED <<input, phase, stack, received>>

Cut ==
    /\ phase = "transfer" /\ damage \subseteq {"added"}
    /\ \E n \in 0..(Len(dAtA) - 1) : dAtA' = SubSeq(dAtA, 1, n)
    /\ damage' = damage \cup {"cut"} /\ UNCHANGED <<input, phase, stack, received>>

Change ==
    /\ phase = "transfer" /\ damage = {}
    /\ \E i \in DOMAIN dAtA : \E b \in OtherBytes \ {dAtA[i]} : dAtA' = [dAtA EXCEPT ![i] = b]
    /\ damage' = {"changed"} /\ UNCHANGED <<input, phase, stack, received>>

----------------------------------------------------------------------------
(* Unmarshal. *)

\* The handwritten Unmarshal of a signer has a group info before it reads one.
Unmarshal ==
    /\ phase = "transfer" /\ phase' = "unmarshal"
    /\ LET m == IF input.kind = "ThresholdSigner"
                THEN [ThresholdSigner EXCEPT !.GroupInfo = <<GroupInfo>>] ELSE Zero[input.kind]
       IN stack' = <<Call(input.kind, m, dAtA, "none", 0)>>
    /\ UNCHANGED <<input, dAtA, damage, received>>

Fail == phase' = "failed" /\ UNCHANGED stack
Goes == phase' = phase

\* The number, bool or content of a field that starts at index i is read into the call.
ReadVarint(call, f, i) ==
    \E v \in {decodeVarint(call.data, i, IF f.type = "bool" THEN WordBits ELSE IntBits)} :
        LET value == IF f.type = "bool" THEN v.value # 0 ELSE Signed(v.value, IntBits)
        IN IF ~v.ok THEN Fail
           ELSE Replace([call EXCEPT !.m[f.name] = value, !.iNdEx = v.next]) /\ Goes

ReadDelimited(call, f, i) ==
    \E v \in {decodeVarint(call.data, i, WordBits)} :
    \E length \in {Signed(v.value, WordBits)} : \E postIndex \in {Signed(v.next + length, WordBits)} :
        LET content == SubSeq(call.data, v.next + 1, postIndex)
            assign(value) == Replace([call EXCEPT !.m[f.name] = value, !.iNdEx = postIndex])
            unmarshal(m) == stack' = Append(stack, Call(f.of, m, content, f.name, postIndex))
        IN IF ~v.ok \/ length < 0 \/ postIndex < 0 \/ postIndex > Len(call.data) THEN Fail
           ELSE /\ CASE f.type = "bytes" -> assign(content)
                     [] f.type = "list" -> assign(Append(call.m[f.name], content))
                     [] f.type = "message" -> unmarshal(Get(call.m[f.name], f.of))
                     [] f.type = "messages" -> unmarshal(Zero[f.of])
                /\ Goes

\* One iteration of the loop of Unmarshal.
ReadField ==
    /\ phase = "unmarshal" /\ stack # <<>>
    /\ ~Top.skipping /\ Top.iNdEx < Len(Top.data)
    /\ \E wire \in {decodeVarint(Top.data, Top.iNdEx, WordBits)} :
       \E fieldNum \in {Signed(wire.value \div 8, IntBits)} :
          LET wireType == wire.value % 8
              fields == FieldsOf[Top.kind]
          IN IF ~wire.ok \/ wireType = 4 \/ fieldNum <= 0 THEN Fail
             ELSE IF fieldNum \notin DOMAIN fields
             THEN Replace([Top EXCEPT !.skipping = TRUE]) /\ Goes
             ELSE IF wireType # WireTypeOf(fields[fieldNum].type) THEN Fail
             ELSE IF wireType = 0 THEN ReadVarint(Top, fields[fieldNum], wire.next)
             ELSE ReadDelimited(Top, fields[fieldNum], wire.next)
    /\ UNCHANGED <<input, dAtA, damage, received>>

\* Mutant of SkipEnds: the end of the input is not looked at.
SkipEndsAnywhere(call, next, depth) ==
    Replace([call EXCEPT !.iNdEx = next, !.depth = depth, !.skipping = depth > 0]) /\ Goes

\* After an element the group goes on, or the field ends within the input.
SkipEnds(call, next, depth) ==
    IF next < 0 \/ next > Len(call.data) THEN Fail
    ELSE Replace([call EXCEPT !.iNdEx = next, !.depth = depth, !.skipping = depth > 0]) /\ Goes

\* One iteration of the loop of skipMessage.
skipMessage ==
    /\ phase = "unmarshal" /\ stack # <<>> /\ Top.skipping
    /\ \E wire \in {decodeVarint(Top.data, Top.iNdEx, WordBits)} :
       \E v \in {decodeVarint(Top.data, wire.next, WordBits)} :
          LET wireType == wire.value % 8
              length == Signed(v.value, WordBits)
          IN IF ~wire.ok \/ (wireType \in {0, 2} /\ ~v.ok) \/ wireType \in {6, 7} THEN Fail
             ELSE CASE wireType = 0 -> SkipEnds(Top, v.next, Top.depth)
                    [] wireType = 1 -> SkipEnds(Top, wire.next + 8, Top.depth)
                    [] wireType = 2 -> IF length < 0 THEN Fail
                                       ELSE SkipEnds(Top, Signed(v.next + length, WordBits), Top.depth)
                    [] wireType = 3 -> SkipEnds(Top, wire.next, Top.depth + 1)
                    [] wireType = 4 -> IF Top.depth = 0 THEN Fail ELSE SkipEnds(Top, wire.next, Top.depth - 1)
                    [] wireType = 5 -> SkipEnds(Top, wire.next + 4, Top.depth)
    /\ UNCHANGED <<input, dAtA, damage, received>>

\* A nested message has been read: its caller takes it and goes on behind it.
Return ==
    /\ phase = "unmarshal" /\ Len(stack) > 1
    /\ ~Top.skipping /\ Top.iNdEx = Len(Top.data)
    /\ LET caller == stack[Len(stack) - 1]
           f == CHOOSE g \in Range(FieldsOf[caller.kind]) : g.name = Top.into
           new == IF f.type = "message" THEN <<Top.m>> ELSE Append(caller.m[f.name], Top.m)
       IN stack' = Append(Front(Front(stack)),
                          [caller EXCEPT !.m[f.name] = new, !.iNdEx = Top.postIndex])
    /\ UNCHANGED <<input, dAtA, damage, phase, received>>

\* The message has been read. That of a signer holds the threshold key, which the
\* handwritten Unmarshal reads next.
Finish ==
    /\ phase = "unmarshal" /\ Len(stack) = 1
    /\ ~Top.skipping /\ Top.iNdEx = Len(Top.data)
    /\ IF Top.kind = "ThresholdSigner"
       THEN /\ stack' = <<Call("LocalPartySaveData", LocalPartySaveData, Top.m.ThresholdKey, "none", 0)>>
            /\ received' = [kind |-> "GroupInfo", value |-> Get(Top.m.GroupInfo, "GroupInfo")] /\ Goes
       ELSE IF Top.kind \in MessageKinds
       THEN stack' = <<>> /\ received' = [kind |-> Top.kind, value |-> Top.m] /\ phase' = "done"
       ELSE IF Decodes(Top.m)
       THEN /\ stack' = <<>> /\ phase' = "done"
            /\ received' = [kind |-> "ThresholdSigner",
                            value |-> Signer_Unmarshal(received.value, ThresholdKey_Unmarshal(Top.m))]
       ELSE Fail /\ UNCHANGED received
    /\ UNCHANGED <<input, dAtA, damage>>

WireNext ==
    \/ Marshal \/ Add \/ Cut \/ Change
    \/ Unmarshal \/ ReadField \/ skipMessage \/ Return \/ Finish

WireSpec == WireInit /\ [][WireNext]_wireVars

----------------------------------------------------------------------------
(* Properties. *)

\* What was marshalled is unmarshalled unchanged, and fields of a later version
\* do not disturb it: sizes, lengths and contents agree, negative numbers and
\* the zeros in lists of numbers included (the generated Marshal, Size and
\* Unmarshal, marshaling.go).
RoundTrip ==
    phase \in {"done", "failed"} /\ damage \subseteq {"added"} => received = input

\* A signer that was not written completely is not loaded, wherever the end is
\* missing: not even at the end of a field, because the public key, which must be
\* a point of the curve, comes last (ThresholdKey.Unmarshal).
CutSignerIsRejected ==
    input.kind = "ThresholdSigner" /\ damage = {"cut"} => phase # "done"

\* No input makes Unmarshal read behind the end of its data (the checks of
\* postIndex and of skippy).
IndexInBounds == \A i \in DOMAIN stack : stack[i].iNdEx \in 0..Len(stack[i].data)

=============================================================================
