------------------------------ MODULE MCCodec ------------------------------
(* Messages for model checking Codec in base 4: a length of one byte is    *)
(* below 4, of two bytes below 16, of three below 64, and each is exceeded.*)
EXTENDS Codec

NextBytes == <<1, 0, 2>>

Some(n) == [i \in 1..n |-> i % 4]
Few == {Some(n) : n \in {0, 1, 3, 4}}

Ext == {[type |-> 1, data |-> <<>>], [type |-> 2, data |-> Some(3)],
        [type |-> 3, data |-> Some(7)]}
Exts == UNION {[1..n -> Ext] : n \in 0..2}

Messages ==
  [kind : {"ClientHello"}, fixed : {<<3, 0>>}, sessionID : {Some(0), Some(3), Some(4)},
   suites : {<<>>, <<6>>, <<6, 9>>}, compression : {<<0>>}, extensions : Exts]
  \cup [kind : {"ServerHello"}, fixed : {<<3, 0>>}, sessionID : {Some(0), Some(3)},
        suite : {6}, compression : {<<0>>}, extensions : Exts]
  \cup [kind : {"EncryptedExtensions"}, extensions : Exts]
  \cup [kind : {"Certificate"}, context : {<<>>, <<2>>},
        chain : UNION {[1..n -> {Some(1), Some(5), Some(30)}] : n \in 0..2}]
  \cup [kind : {"CertificateRequest"}, context : {<<>>, <<2>>}, extensions : Exts]
  \cup [kind : {"CertificateVerify"}, algorithm : {7},
        signature : {Some(n) : n \in {0, 1, 7, 8, 16}}]
  \cup [kind : {"Finished"}, verifyData : Few]
  \cup [kind : {"NewSessionTicket"}, times : {Some(8)}, nonce : Few,
        ticket : {Some(n) : n \in {1, 15, 16}}]
  \cup [kind : {"ServerName"}, name : {Some(n) : n \in {1, 12, 13}}]
  \cup [kind : {"Protocols"}, protocols : UNION {[1..n -> Few] : n \in 1..3}]
  \cup [kind : {"NumberList"}, numbers : UNION {[1..n -> {6, 13}] : n \in {1, 2, 7, 8}}]
  \cup [kind : {"ClientShares"}, shares : UNION {[1..n -> Ext] : n \in 1..2}]
  \cup [kind : {"ServerShare"}, share : {e \in Ext : e.data # <<>>}]
  \cup [kind : {"PSKModes"}, modes : Few \ {<<>>}]
  \cup [kind : {"Versions"}, versions : {<<>>, <<7>>, <<7, 9>>}]
  \cup [kind : {"PreSharedKey"}, ticket : {Some(n) : n \in {1, 4, 9, 10}},
        age : {<<3, 1, 2, 0>>}, binder : {<<2, 3, 1>>}]
=============================================================================
