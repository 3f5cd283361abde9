------------------------------- MODULE AesModes -------------------------------
(***************************************************************************)
(* The modes of operation in mtnf/nfs/mtnf_aes.c (the same file is         *)
(* container_fn/aes/mtnf_aes.c): CBC and CTR, a block at a time, and CCM,  *)
(* built from a CBC MAC and two CTR streams.  The block cipher under its   *)
(* key is a constant; module AesCipher has its rounds.  Something is       *)
(* encrypted, and what comes out is decrypted again.                       *)
(***************************************************************************)
EXTENDS Integers, Sequences, FiniteSets, SequencesExt

CONSTANTS
    AES_BLOCK_SIZE,  \* bytes of a block
    BYTES,           \* 256: the values of a byte
    XorByte(_, _),
    AesEncrypt(_),   \* aes_encrypt and aes_decrypt with some key
    AesDecrypt(_),
    Messages,        \* what is encrypted with CBC and CTR
    Ivs,             \* initial vectors
    Payloads, Assocs, Nonces, MacLens,  \* the arguments of CCM
    MinNonce, MaxNonce                  \* 7 and 13

Byte == 0 .. BYTES - 1
Block == [1 .. AES_BLOCK_SIZE -> Byte]

ASSUME AesModesAssumption ==
    /\ AES_BLOCK_SIZE \in Nat \ {0}
    /\ BYTES \in Nat \ {0}
    /\ Messages \subseteq Seq(Byte) /\ Ivs \subseteq Block
    /\ Payloads \subseteq Seq(Byte) /\ Assocs \subseteq Seq(Byte)
    /\ Nonces \subseteq Seq(Byte) /\ MacLens \subseteq Nat
    /\ MinNonce \in Nat /\ MaxNonce \in 0 .. AES_BLOCK_SIZE - 3
    /\ \A x, y \in Byte : XorByte(x, y) \in Byte /\ XorByte(x, XorByte(x, y)) = y
    /\ \A b \in Block : AesEncrypt(b) \in Block /\ AesDecrypt(AesEncrypt(b)) = b

\* The numbers that k bytes can be.
NumbersOf[k \in Nat] == IF k = 0 THEN 1 ELSE BYTES * NumbersOf[k - 1]

\* payload_len is a WORD, and a counter has the 16 bytes of a block.
ASSUME CounterAssumption ==
    /\ BYTES > 1
    /\ \A payload \in Payloads : Len(payload) < NumbersOf[AES_BLOCK_SIZE]

VARIABLES
    call,    \* the call that is made: its mode and arguments
    stage,   \* "idle", "encrypt", "decrypt" or "done"
    idx,     \* bytes done
    iv_buf,  \* the block carried from one pass to the next
    cipher,  \* what encryption has put out
    plain,   \* what decryption has put out
    mac_auth \* whether CCM has found the MAC right

modesVars == <<call, stage, idx, iv_buf, cipher, plain, mac_auth>>

NoCall == [mode |-> "none"]
Zeros(n) == [k \in 1 .. n |-> 0]

ModesTypeOK ==
    /\ call = NoCall \/ call.mode \in {"cbc", "ctr", "ccm"}
    /\ stage \in {"idle", "encrypt", "decrypt", "done"}
    /\ idx \in Nat
    /\ iv_buf \in Block
    /\ cipher \in Seq(Byte) /\ plain \in Seq(Byte)
    /\ mac_auth \in BOOLEAN

ModesInit ==
    /\ call = NoCall
    /\ stage = "idle"
    /\ idx = 0
    /\ iv_buf = Zeros(AES_BLOCK_SIZE)
    /\ cipher = <<>> /\ plain = <<>>
    /\ mac_auth = FALSE

-----------------------------------------------------------------------------
(* Helpers *)

XorBuf(in, out) == [k \in DOMAIN out |-> XorByte(in[k], out[k])]

\* n bytes from the one after i on.
Bytes(s, i, n) == SubSeq(s, i + 1, i + n)

\* A bug: the carry stops at the last byte but one.
IncrementIvShort(iv, counter_size) ==
    [k \in 1 .. AES_BLOCK_SIZE |->
        IF \/ k = AES_BLOCK_SIZE
           \/ k = AES_BLOCK_SIZE - 1 /\ iv[AES_BLOCK_SIZE] = BYTES - 1
        THEN (iv[k] + 1) % BYTES ELSE iv[k]]

\* The last counter_size bytes are a big-endian number: a byte is incremented if
\* all after it have wrapped.
IncrementIv(iv, counter_size) ==
    [k \in 1 .. AES_BLOCK_SIZE |->
        IF /\ k > AES_BLOCK_SIZE - counter_size
           /\ \A l \in k + 1 .. AES_BLOCK_SIZE : iv[l] = BYTES - 1
        THEN (iv[k] + 1) % BYTES ELSE iv[k]]

\* The next loop starts, over what has been put out.
StartDecrypt ==
    /\ stage' = "decrypt"
    /\ idx' = 0 /\ iv_buf' = call.iv

-----------------------------------------------------------------------------
(* CBC *)

Call(c) ==
    /\ stage = "idle"
    /\ call' = c /\ stage' = "encrypt"
    /\ idx' = 0 /\ iv_buf' = c.iv
    /\ UNCHANGED <<cipher, plain, mac_auth>>

CallCbc ==
    \E in \in Messages, iv \in Ivs :
        /\ Len(in) % AES_BLOCK_SIZE = 0
        /\ Call([mode |-> "cbc", in |-> in, iv |-> iv])

\* A length that is no multiple of the block size: FALSE is answered.
RefuseCbc ==
    /\ stage = "idle"
    /\ \E in \in Messages : Len(in) % AES_BLOCK_SIZE # 0
    /\ UNCHANGED modesVars

InCbc(s, in) == call.mode = "cbc" /\ stage = s /\ idx < Len(in)

CbcEncryptBlock ==
    /\ InCbc("encrypt", call.in)
    /\ iv_buf' = AesEncrypt(XorBuf(iv_buf, Bytes(call.in, idx, AES_BLOCK_SIZE)))
    /\ cipher' = cipher \o iv_buf'
    /\ idx' = idx + AES_BLOCK_SIZE
    /\ UNCHANGED <<call, stage, plain, mac_auth>>

CbcEncrypted ==
    /\ call.mode = "cbc" /\ stage = "encrypt" /\ idx = Len(call.in)
    /\ StartDecrypt
    /\ UNCHANGED <<call, cipher, plain, mac_auth>>

CbcDecryptBlock ==
    /\ InCbc("decrypt", cipher)
    /\ iv_buf' = Bytes(cipher, idx, AES_BLOCK_SIZE)
    /\ plain' = plain \o XorBuf(iv_buf, AesDecrypt(iv_buf'))
    /\ idx' = idx + AES_BLOCK_SIZE
    /\ UNCHANGED <<call, stage, cipher, mac_auth>>

CbcDecrypted ==
    /\ call.mode = "cbc" /\ stage = "decrypt" /\ idx = Len(cipher)
    /\ stage' = "done"
    /\ UNCHANGED <<call, idx, iv_buf, cipher, plain, mac_auth>>

-----------------------------------------------------------------------------
(* CTR: aes_decrypt_ctr is aes_encrypt_ctr *)

CallCtr ==
    \E in \in Messages, iv \in Ivs :
        Call([mode |-> "ctr", in |-> in, iv |-> iv])

\* What the stage reads.
CtrIn == IF stage = "encrypt" THEN call.in ELSE cipher

CtrOut(bytes) ==
    IF stage = "encrypt" THEN cipher' = cipher \o bytes /\ UNCHANGED plain
                         ELSE plain' = plain \o bytes /\ UNCHANGED cipher

\* The loop leaves the last block, full or not.
InCtrLoop(in) == idx + AES_BLOCK_SIZE < Len(in)

InCtr == call.mode = "ctr" /\ stage \in {"encrypt", "decrypt"}

CtrBlock ==
    /\ InCtr
    /\ InCtrLoop(CtrIn)
    /\ CtrOut(XorBuf(AesEncrypt(iv_buf), Bytes(CtrIn, idx, AES_BLOCK_SIZE)))
    /\ iv_buf' = IncrementIv(iv_buf, AES_BLOCK_SIZE)
    /\ idx' = idx + AES_BLOCK_SIZE
    /\ UNCHANGED <<call, stage, mac_auth>>

CtrLastBlock ==
    /\ InCtr
    /\ ~InCtrLoop(CtrIn)
    /\ CtrOut(XorBuf(AesEncrypt(iv_buf), Bytes(CtrIn, idx, Len(CtrIn) - idx)))
    /\ IF stage = "encrypt" THEN StartDecrypt
                            ELSE stage' = "done" /\ UNCHANGED <<idx, iv_buf>>
    /\ UNCHANGED <<call, mac_auth>>

-----------------------------------------------------------------------------
(* CCM, one call a step *)

\* The counter block after n increments, and a whole CTR pass.
CounterAfter(iv, n) ==
    LET after[k \in Nat] ==
          IF k = 0 THEN iv ELSE IncrementIv(after[k - 1], AES_BLOCK_SIZE)
    IN  after[n]

Ctr(in, iv) ==
    [k \in DOMAIN in |->
        XorByte(AesEncrypt(CounterAfter(iv, (k - 1) \div AES_BLOCK_SIZE))
                    [1 + ((k - 1) % AES_BLOCK_SIZE)],
                in[k])]

\* The MAC goes on with the block of in after the first k blocks.
MacBlock(mac, in, k) ==
    AesEncrypt(XorBuf(mac, Bytes(in, AES_BLOCK_SIZE * k, AES_BLOCK_SIZE)))

CbcMac(in) ==
    LET blocks == Len(in) \div AES_BLOCK_SIZE
        mac[k \in 0 .. blocks] ==
          IF k = 0 THEN Zeros(AES_BLOCK_SIZE) ELSE MacBlock(mac[k - 1], in, k - 1)
    IN  mac[blocks]

FirstCtrBlk(nonce) ==
    <<((AES_BLOCK_SIZE - 2 - Len(nonce)) % 8) % BYTES>> \o nonce
        \o Zeros(AES_BLOCK_SIZE - 1 - Len(nonce))

TwoBytes(n) == <<(n \div BYTES) % BYTES, n % BYTES>>

FirstFormatBlk(assoc_len, payload_len, mac_len, nonce) ==
    LET flags == 8 * (((mac_len - 2) \div 2) % 8)
                   + ((AES_BLOCK_SIZE - 2 - Len(nonce)) % 8)
                   + (IF assoc_len > 0 THEN 64 ELSE 0)
    IN  <<flags % BYTES>> \o nonce
          \o Zeros(AES_BLOCK_SIZE - 3 - Len(nonce)) \o TwoBytes(payload_len)

\* A full block of padding is added when none is needed.
FormatAssocData(assoc) ==
    LET data == TwoBytes(Len(assoc)) \o assoc
    IN  data \o Zeros(AES_BLOCK_SIZE - (Len(data) % AES_BLOCK_SIZE))

FormatPayloadData(payload) ==
    payload \o Zeros((AES_BLOCK_SIZE - (Len(payload) % AES_BLOCK_SIZE)) % AES_BLOCK_SIZE)

Formatted(payload, assoc, nonce, mac_len) ==
    FirstFormatBlk(Len(assoc), Len(payload), mac_len, nonce)
        \o FormatAssocData(assoc) \o FormatPayloadData(payload)

\* The counter that the payload is encrypted with.
PayloadCounter(nonce, mac_len) ==
    IncrementIv(FirstCtrBlk(nonce), AES_BLOCK_SIZE - 1 - mac_len)

Mac(payload, assoc, nonce, mac_len) ==
    SubSeq(CbcMac(Formatted(payload, assoc, nonce, mac_len)), 1, mac_len)

CcmOutput(payload, assoc, nonce, mac_len) ==
    Ctr(payload, PayloadCounter(nonce, mac_len))
        \o Ctr(Mac(payload, assoc, nonce, mac_len), FirstCtrBlk(nonce))

\* The lengths of a MAC are even, from 4 to 16.
ValidCcm(nonce, mac_len) ==
    /\ mac_len % 2 = 0 /\ mac_len \in AES_BLOCK_SIZE \div 4 .. AES_BLOCK_SIZE
    /\ Len(nonce) \in MinNonce .. MaxNonce

EncryptCcm ==
    \E payload \in Payloads, assoc \in Assocs, nonce \in Nonces, mac_len \in MacLens :
        /\ stage = "idle"
        /\ ValidCcm(nonce, mac_len)
        /\ call' = [mode |-> "ccm", in |-> payload, assoc |-> assoc,
                    nonce |-> nonce, mac_len |-> mac_len]
        /\ cipher' = CcmOutput(payload, assoc, nonce, mac_len)
        /\ stage' = "encrypt"
        /\ UNCHANGED <<idx, iv_buf, plain, mac_auth>>

RefuseCcm ==
    /\ stage = "idle"
    /\ \E nonce \in Nonces, mac_len \in MacLens : ~ValidCcm(nonce, mac_len)
    /\ UNCHANGED modesVars

\* On its way the ciphertext changes, in one byte.
Disturb ==
    /\ call.mode = "ccm" /\ stage = "encrypt"
    /\ cipher = CcmOutput(call.in, call.assoc, call.nonce, call.mac_len)
    /\ \E k \in DOMAIN cipher, b \in Byte : cipher' = [cipher EXCEPT ![k] = b]
    /\ UNCHANGED <<call, stage, idx, iv_buf, plain, mac_auth>>

\* A bug: the MAC is compared as it came, still encrypted.
MacMatchesAsCame(payload, mac) ==
    Mac(payload, call.assoc, call.nonce, call.mac_len) = mac

\* The MAC of what was decrypted is the one that came with it.
MacMatches(payload, mac) ==
    Mac(payload, call.assoc, call.nonce, call.mac_len)
        = Ctr(mac, FirstCtrBlk(call.nonce))

DecryptCcm ==
    LET n == Len(cipher) - call.mac_len
        payload == Ctr(Bytes(cipher, 0, n), PayloadCounter(call.nonce, call.mac_len))
    IN  /\ call.mode = "ccm" /\ stage = "encrypt"
        /\ n > 0
        /\ mac_auth' = MacMatches(payload, Bytes(cipher, n, call.mac_len))
        /\ plain' = IF mac_auth' THEN payload ELSE Zeros(n)
        /\ stage' = "done"
        /\ UNCHANGED <<call, idx, iv_buf, cipher>>

\* A ciphertext that is a MAC only is refused.
RefuseDecryptCcm ==
    /\ call.mode = "ccm" /\ stage = "encrypt"
    /\ Len(cipher) <= call.mac_len
    /\ UNCHANGED modesVars

\* The buffers are the caller's; the next call brings others.
Return ==
    /\ stage = "done"
    /\ call' = NoCall /\ stage' = "idle"
    /\ idx' = 0 /\ iv_buf' = Zeros(AES_BLOCK_SIZE)
    /\ cipher' = <<>> /\ plain' = <<>> /\ mac_auth' = FALSE

ModesNext ==
    \/ CallCbc \/ RefuseCbc \/ CbcEncryptBlock \/ CbcEncrypted
    \/ CbcDecryptBlock \/ CbcDecrypted
    \/ CallCtr \/ CtrBlock \/ CtrLastBlock
    \/ EncryptCcm \/ RefuseCcm \/ Disturb \/ DecryptCcm \/ RefuseDecryptCcm
    \/ Return

ModesSpec == ModesInit /\ [][ModesNext]_modesVars

-----------------------------------------------------------------------------
(* Properties *)

(* mtnf_aes.c:283-346,371-397: what CBC and CTR have decrypted so far is what *)
(* was encrypted, for every length and initial vector.                       *)
ModesRoundTrip ==
    /\ call.mode \in {"cbc", "ctr"} => IsPrefix(plain, call.in)
    /\ call.mode \in {"cbc", "ctr"} /\ stage = "done" => plain = call.in

\* A block as a number, the last byte the least.
Number(b) ==
    LET n[k \in 0 .. Len(b)] == IF k = 0 THEN 0 ELSE BYTES * n[k - 1] + b[k]
    IN  n[Len(b)]

(* mtnf_aes.c:357-368: the carry runs through the bytes as through digits,   *)
(* so that no two blocks of a message are encrypted with the same counter.   *)
CountersCount ==
    InCtr => Number(iv_buf) = (Number(call.iv) + (idx \div AES_BLOCK_SIZE))
                                 % NumbersOf[AES_BLOCK_SIZE]

(* mtnf_aes.c:467-532: a ciphertext is accepted exactly if it is what the    *)
(* encryption of the answered plaintext yields; a disturbed one is not taken *)
(* for another message unless it is one.                                     *)
CcmAcceptsItsOwn ==
    call.mode = "ccm" /\ stage = "done" =>
        /\ mac_auth => cipher = CcmOutput(plain, call.assoc, call.nonce, call.mac_len)
        /\ cipher = CcmOutput(call.in, call.assoc, call.nonce, call.mac_len)
             => mac_auth /\ plain = call.in

(* mtnf_aes.c:422,564: the data formatted for the MAC is whole blocks, and   *)
(* fits the allocation of 48 extra bytes, except for one combination of      *)
(* lengths.  The comment at 422 rounds "both payload and associated data up  *)
(* a block size", but associated data that needs no padding gets a full      *)
(* block of it (564), and with a payload of one byte more than whole blocks  *)
(* the data is a byte longer than the buffer.                                *)
FormatSize == Len(Formatted(call.in, call.assoc, call.nonce, call.mac_len))
FormatRoom == Len(call.in) + Len(call.assoc) + 3 * AES_BLOCK_SIZE
AssocAddsBlock == (Len(call.assoc) + 2) % AES_BLOCK_SIZE = 0
OneByteOver == Len(call.in) % AES_BLOCK_SIZE = 1

FormatFits ==
    call.mode = "ccm" =>
        /\ FormatSize % AES_BLOCK_SIZE = 0
        /\ ~(AssocAddsBlock /\ OneByteOver) => FormatSize <= FormatRoom

(* mtnf_aes.c:451-457: no block of the payload is encrypted with the counter *)
(* of the MAC, unless the MAC is nearly a block.  The comment at 451 has the *)
(* payload's counter start at 1; for a MAC of a whole block line 453 leaves  *)
(* increment_iv -1 bytes to count with, and the payload starts with the      *)
(* counter 0 of the MAC.                                                     *)
CountersAreFresh ==
    call.mode = "ccm" /\ call.in # <<>> /\ call.mac_len < AES_BLOCK_SIZE - 1 =>
        FirstCtrBlk(call.nonce) \notin
            {CounterAfter(PayloadCounter(call.nonce, call.mac_len), n) :
                n \in 0 .. (Len(call.in) - 1) \div AES_BLOCK_SIZE}

(* In all three modes decryption undoes encryption.                          *)
ModesAreUndone == ModesRoundTrip /\ CcmAcceptsItsOwn

(* The counters of CTR count; the payload and the MAC of CCM have different  *)
(* ones, unless the MAC is nearly a block; what the MAC is computed of is    *)
(* whole blocks inside its buffer, unless for one combination of lengths.    *)
(* In both exceptions the code is not what its comments say.                 *)
BlocksAreSound == CountersCount /\ CountersAreFresh /\ FormatFits

=============================================================================
