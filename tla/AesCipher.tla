------------------------------ MODULE AesCipher ------------------------------
(***************************************************************************)
(* The block cipher in mtnf/nfs/mtnf_aes.c: the key schedule, written a    *)
(* word at a time, and the rounds, one transformation of the 4 x 4 state a *)
(* step.  A block is encrypted and the result decrypted.  A word of the    *)
(* schedule is its four bytes, the most significant first.                 *)
(***************************************************************************)
EXTENDS Integers, Sequences, FiniteSets, SequencesExt

CONSTANTS
    KeySizes,   \* the sizes asked for, in bits
    CipherKeys, \* the keys: sequences of bytes
    InBlocks,   \* the blocks to encrypt
    Vectors     \* examples of the standard: size, key, block and ciphertext

AesByte == 0 .. 255
Index == 0 .. 3
Nb == 4

ASSUME AesCipherAssumption ==
    /\ KeySizes \subseteq Nat
    /\ CipherKeys \subseteq Seq(AesByte)
    /\ InBlocks \subseteq [1 .. 16 -> AesByte]

VARIABLES
    aes_at,     \* "idle", "key", "ready", "encrypt", "decrypt" or "done"
    keysize,    \* the last arguments
    aes_key,
    w,          \* the words of the schedule written so far
    in_block,   \* the block to encrypt
    state,      \* [Index \X Index -> AesByte]: row, column
    aes_round,  \* the round whose key is added next
    aes_step,   \* the next transformation in the round
    trace       \* history: the state after each round of encryption

cipherVars == <<aes_at, keysize, aes_key, w, in_block, state, aes_round, aes_step, trace>>
keyVars == <<keysize, aes_key, w>>

Nk == keysize \div 32
Nr == IF keysize = 128 THEN 10 ELSE IF keysize = 192 THEN 12 ELSE 14

ZeroState == [p \in Index \X Index |-> 0]

CipherTypeOK ==
    /\ aes_at \in {"idle", "key", "ready", "encrypt", "decrypt", "done"}
    /\ keysize \in KeySizes \cup {0}
    /\ aes_key \in Seq(AesByte)
    /\ w \in Seq([1 .. 4 -> AesByte]) /\ Len(w) <= (keysize \div 8) + 28   \* 4 * (rounds + 1)
    /\ in_block \in [1 .. 16 -> AesByte]
    /\ state \in [Index \X Index -> AesByte]
    /\ aes_round \in 0 .. 14
    /\ aes_step \in {"sub", "shift", "mix", "add"}
    /\ trace \in Seq([Index \X Index -> AesByte])

CipherInit ==
    /\ aes_at = "idle"
    /\ keysize = 0 /\ aes_key = <<>>
    /\ w = <<>>
    /\ in_block = [k \in 1 .. 16 |-> 0]
    /\ state = ZeroState
    /\ aes_round = 0 /\ aes_step = "add"
    /\ trace = <<>>

-----------------------------------------------------------------------------
(* Bytes *)

Nibble == 0 .. 15

\* The bit of two numbers' exclusive or whose value is v.
XorBit(a, b, v) == ((a \div v) + (b \div v)) % 2

NibbleXor ==
    [p \in Nibble \X Nibble |->
        XorBit(p[1], p[2], 1) + 2 * XorBit(p[1], p[2], 2)
          + 4 * XorBit(p[1], p[2], 4) + 8 * XorBit(p[1], p[2], 8)]

a ++ b == 16 * NibbleXor[<<a \div 16, b \div 16>>] + NibbleXor[<<a % 16, b % 16>>]

(* The two tables of substitutions *)

aes_sbox ==
    <<
       99, 124, 119, 123, 242, 107, 111, 197,  48,   1, 103,  43, 254, 215, 171, 118,
      202, 130, 201, 125, 250,  89,  71, 240, 173, 212, 162, 175, 156, 164, 114, 192,
      183, 253, 147,  38,  54,  63, 247, 204,  52, 165, 229, 241, 113, 216,  49,  21,
        4, 199,  35, 195,  24, 150,   5, 154,   7,  18, 128, 226, 235,  39, 178, 117,
        9, 131,  44,  26,  27, 110,  90, 160,  82,  59, 214, 179,  41, 227,  47, 132,
       83, 209,   0, 237,  32, 252, 177,  91, 106, 203, 190,  57,  74,  76,  88, 207,
      208, 239, 170, 251,  67,  77,  51, 133,  69, 249,   2, 127,  80,  60, 159, 168,
       81, 163,  64, 143, 146, 157,  56, 245, 188, 182, 218,  33,  16, 255, 243, 210,
      205,  12,  19, 236,  95, 151,  68,  23, 196, 167, 126,  61, 100,  93,  25, 115,
       96, 129,  79, 220,  34,  42, 144, 136,  70, 238, 184,  20, 222,  94,  11, 219,
      224,  50,  58,  10,  73,   6,  36,  92, 194, 211, 172,  98, 145, 149, 228, 121,
      231, 200,  55, 109, 141, 213,  78, 169, 108,  86, 244, 234, 101, 122, 174,   8,
      186, 120,  37,  46,  28, 166, 180, 198, 232, 221, 116,  31,  75, 189, 139, 138,
      112,  62, 181, 102,  72,   3, 246,  14,  97,  53,  87, 185, 134, 193,  29, 158,
      225, 248, 152,  17, 105, 217, 142, 148, 155,  30, 135, 233, 206,  85,  40, 223,
      140, 161, 137,  13, 191, 230,  66, 104,  65, 153,  45,  15, 176,  84, 187,  22
    >>

aes_invsbox ==
    <<
       82,   9, 106, 213,  48,  54, 165,  56, 191,  64, 163, 158, 129, 243, 215, 251,
      124, 227,  57, 130, 155,  47, 255, 135,  52, 142,  67,  68, 196, 222, 233, 203,
       84, 123, 148,  50, 166, 194,  35,  61, 238,  76, 149,  11,  66, 250, 195,  78,
        8,  46, 161, 102,  40, 217,  36, 178, 118,  91, 162,  73, 109, 139, 209,  37,
      114, 248, 246, 100, 134, 104, 152,  22, 212, 164,  92, 204,  93, 101, 182, 146,
      108, 112,  72,  80, 253, 237, 185, 218,  94,  21,  70,  87, 167, 141, 157, 132,
      144, 216, 171,   0, 140, 188, 211,  10, 247, 228,  88,   5, 184, 179,  69,   6,
      208,  44,  30, 143, 202,  63,  15,   2, 193, 175, 189,   3,   1,  19, 138, 107,
       58, 145,  17,  65,  79, 103, 220, 234, 151, 242, 207, 206, 240, 180, 230, 115,
      150, 172, 116,  34, 231, 173,  53, 133, 226, 249,  55, 232,  28, 117, 223, 110,
       71, 241,  26, 113,  29,  41, 197, 137, 111, 183,  98,  14, 170,  24, 190,  27,
      252,  86,  62,  75, 198, 210, 121,  32, 154, 219, 192, 254, 120, 205,  90, 244,
       31, 221, 168,  51, 136,   7, 199,  49, 177,  18,  16,  89,  39, 128, 236,  95,
       96,  81, 127, 169,  25, 181,  74,  13,  45, 229, 122, 159, 147, 201, 156, 239,
      160, 224,  59,  77, 174,  42, 245, 176, 200, 235, 187,  60, 131,  83, 153,  97,
       23,  43,   4, 126, 186, 119, 214,  38, 225, 105,  20,  99,  85,  33,  12, 125
    >>

Sbox(b) == aes_sbox[1 + b]

InvSbox(b) == aes_invsbox[1 + b]

Double(b) == IF b < 128 THEN 2 * b ELSE (2 * b - 256) ++ 27

\* gf_mul, whose columns are the products with 2, 3, 9, 11, 13 and 14.
GfMul(b, c) ==
    LET two == Double(b)
        four == Double(two)
        eight == Double(four)
    IN  CASE c = 1 -> b
          [] c = 2 -> two
          [] c = 3 -> two ++ b
          [] c = 9 -> eight ++ b
          [] c = 11 -> eight ++ two ++ b
          [] c = 13 -> eight ++ four ++ b
          [] c = 14 -> eight ++ four ++ two

-----------------------------------------------------------------------------
(* aes_key_setup *)

XorWords(v, u) == [k \in 1 .. 4 |-> v[k] ++ u[k]]

SubWord(v) == [k \in 1 .. 4 |-> Sbox(v[k])]

RotWord(v) == <<v[2], v[3], v[4], v[1]>>

\* Rcon: its entry n is x^n in the field of bytes.
Rcon(n) ==
    LET x[k \in Nat] == IF k = 0 THEN 1 ELSE Double(x[k - 1])
    IN  <<x[n], 0, 0, 0>>

\* A size other than 128, 192 and 256: nothing is written.
KeySetupRefused ==
    /\ aes_at = "idle"
    /\ \E size \in KeySizes : size \notin {128, 192, 256}
    /\ UNCHANGED cipherVars

KeySetup ==
    /\ aes_at = "idle"
    /\ \E key \in CipherKeys, size \in KeySizes \cap {128, 192, 256} :
         /\ Len(key) >= size \div 8
         /\ aes_key' = key /\ keysize' = size
         /\ w' = [k \in 1 .. size \div 32 |-> SubSeq(key, 4 * k - 3, 4 * k)]
    /\ aes_at' = "key"
    /\ UNCHANGED <<in_block, state, aes_round, aes_step, trace>>

\* A bug: the substitution in the middle of a long key is left out.
TempWordShort(k) ==
    LET last == w[k]
    IN  IF k % Nk = 0 THEN XorWords(SubWord(RotWord(last)), Rcon((k - 1) \div Nk))
                      ELSE last

\* What word k - Nk is combined with; the array starts at 0.
TempWord(k) ==
    LET last == w[k]
    IN  CASE k % Nk = 0 -> XorWords(SubWord(RotWord(last)), Rcon((k - 1) \div Nk))
          [] Nk > 6 /\ k % Nk = 4 -> SubWord(last)
          [] OTHER -> last

KeyWord ==
    LET k == Len(w)
    IN  /\ aes_at = "key"
        /\ k < Nb * (Nr + 1)
        /\ w' = Append(w, XorWords(w[k - Nk + 1], TempWord(k)))
        /\ UNCHANGED <<aes_at, keysize, aes_key, in_block, state, aes_round, aes_step, trace>>

KeyDone ==
    /\ aes_at = "key" /\ Len(w) = Nb * (Nr + 1)
    /\ aes_at' = "ready"
    /\ UNCHANGED <<keyVars, in_block, state, aes_round, aes_step, trace>>

-----------------------------------------------------------------------------
(* The transformations of the state *)

AddRoundKey(s, n) == [p \in Index \X Index |-> s[p] ++ w[Nb * n + p[2] + 1][p[1] + 1]]

SubBytes(s) == [p \in Index \X Index |-> Sbox(s[p])]

InvSubBytes(s) == [p \in Index \X Index |-> InvSbox(s[p])]

ShiftRows(s) == [p \in Index \X Index |-> s[<<p[1], (p[2] + p[1]) % 4>>]]

\* A bug: the rows are shifted on instead of back.
InvShiftRowsForth(s) == [p \in Index \X Index |-> s[<<p[1], (p[2] + p[1]) % 4>>]]

InvShiftRows(s) == [p \in Index \X Index |-> s[<<p[1], (p[2] - p[1]) % 4>>]]

\* Row r of the product of a circulant matrix, with that first row, and column c.
Circulant(row, s, r, c) ==
    LET Term(k) == GfMul(s[<<k, c>>], row[1 + ((k - r) % 4)])
    IN  Term(0) ++ Term(1) ++ Term(2) ++ Term(3)

MixColumns(s) == [p \in Index \X Index |-> Circulant(<<2, 3, 1, 1>>, s, p[1], p[2])]

InvMixColumns(s) == [p \in Index \X Index |-> Circulant(<<14, 11, 13, 9>>, s, p[1], p[2])]

\* A block fills the state a column at a time.
ToState(block) == [p \in Index \X Index |-> block[4 * p[2] + p[1] + 1]]
FromState(s) == [k \in 1 .. 16 |-> s[<<(k - 1) % 4, (k - 1) \div 4>>]]

-----------------------------------------------------------------------------
(* aes_encrypt and aes_decrypt *)

Transform(step, next, s) ==
    /\ aes_step = step /\ aes_step' = next
    /\ state' = s
    /\ UNCHANGED <<keyVars, in_block>>

Encrypt ==
    /\ aes_at = "ready"
    /\ aes_at' = "encrypt"
    /\ in_block' \in InBlocks
    /\ state' = AddRoundKey(ToState(in_block'), 0)
    /\ trace' = <<state'>>
    /\ aes_round' = 1 /\ aes_step' = "sub"
    /\ UNCHANGED keyVars

EncryptSub ==
    /\ aes_at = "encrypt" /\ aes_round <= Nr
    /\ Transform("sub", "shift", SubBytes(state))
    /\ UNCHANGED <<aes_at, aes_round, trace>>

\* The last round has no MixColumns.
EncryptShift ==
    /\ aes_at = "encrypt"
    /\ Transform("shift", IF aes_round = Nr THEN "add" ELSE "mix", ShiftRows(state))
    /\ UNCHANGED <<aes_at, aes_round, trace>>

EncryptMix ==
    /\ aes_at = "encrypt"
    /\ Transform("mix", "add", MixColumns(state))
    /\ UNCHANGED <<aes_at, aes_round, trace>>

EncryptAdd ==
    /\ aes_at = "encrypt" /\ aes_round < Nr
    /\ Transform("add", "sub", AddRoundKey(state, aes_round))
    /\ trace' = Append(trace, state')
    /\ aes_round' = aes_round + 1
    /\ UNCHANGED aes_at

\* The state becomes the output, which is the input of aes_decrypt.
EncryptLast ==
    /\ aes_at = "encrypt" /\ aes_round = Nr
    /\ Transform("add", "add", AddRoundKey(state, Nr))
    /\ trace' = Append(trace, state')
    /\ aes_at' = "decrypt"
    /\ UNCHANGED aes_round

\* The first round key is added before the rows are shifted back.
DecryptAdd ==
    /\ aes_at = "decrypt" /\ aes_round > 0
    /\ Transform("add", IF aes_round = Nr THEN "shift" ELSE "mix",
                 AddRoundKey(state, aes_round))
    /\ UNCHANGED <<aes_at, aes_round, trace>>

DecryptMix ==
    /\ aes_at = "decrypt"
    /\ Transform("mix", "shift", InvMixColumns(state))
    /\ UNCHANGED <<aes_at, aes_round, trace>>

DecryptShift ==
    /\ aes_at = "decrypt"
    /\ Transform("shift", "sub", InvShiftRows(state))
    /\ UNCHANGED <<aes_at, aes_round, trace>>

DecryptSub ==
    /\ aes_at = "decrypt"
    /\ Transform("sub", "add", InvSubBytes(state))
    /\ aes_round' = aes_round - 1
    /\ UNCHANGED <<aes_at, trace>>

DecryptLast ==
    /\ aes_at = "decrypt" /\ aes_round = 0
    /\ Transform("add", "add", AddRoundKey(state, 0))
    /\ aes_at' = "done"
    /\ UNCHANGED <<aes_round, trace>>

\* The schedule stays for the next block.
NextBlock ==
    /\ aes_at = "done"
    /\ aes_at' = "ready"
    /\ in_block' = [k \in 1 .. 16 |-> 0]
    /\ state' = ZeroState /\ trace' = <<>>
    /\ UNCHANGED <<keyVars, aes_round, aes_step>>

CipherNext ==
    \/ KeySetupRefused \/ KeySetup \/ KeyWord \/ KeyDone
    \/ Encrypt \/ EncryptSub \/ EncryptShift \/ EncryptMix \/ EncryptAdd \/ EncryptLast
    \/ DecryptAdd \/ DecryptMix \/ DecryptShift \/ DecryptSub \/ DecryptLast
    \/ NextBlock

CipherSpec == CipherInit /\ [][CipherNext]_cipherVars

-----------------------------------------------------------------------------
(* Properties *)

(* mtnf_aes.c:978-1118: decryption goes back through the rounds: before the  *)
(* key of a round is added again the state is what it was after that round   *)
(* of encryption, and in the end it is the block.                            *)
RoundsAreUndone ==
    /\ aes_at = "decrypt" /\ aes_step = "add" => state = trace[aes_round + 1]
    /\ aes_at = "done" => FromState(state) = in_block

\* The product of two bytes, bit by bit of the second.
Product(b, c) ==
    FoldLeft(LAMBDA s, k :
                LET double == Double(s)
                IN  IF (c \div 2 ^ k) % 2 = 1 THEN double ++ b ELSE double,
             0, <<7, 6, 5, 4, 3, 2, 1, 0>>)

Rotated(b, k) == ((b * 2 ^ k) % 256) + (b \div 2 ^ (8 - k))

\* The substitution as the standard defines it: an affine map of the inverse.
Affine(b) ==
    b ++ Rotated(b, 1) ++ Rotated(b, 2) ++ Rotated(b, 3) ++ Rotated(b, 4) ++ 99

SboxEntriesAreRight ==
    \A b \in AesByte :
        /\ IF b = 0 THEN Sbox(b) = 99
                    ELSE \E c \in AesByte : Product(b, c) = 1 /\ Sbox(b) = Affine(c)
        /\ InvSbox(Sbox(b)) = b

(* mtnf_aes.c:91-133: the two tables typed in are the substitution of FIPS   *)
(* 197, the affine map of the inverse in the field, and its inverse.         *)
TablesAreFips197 == aes_at = "ready" => SboxEntriesAreRight

(* mtnf_aes.c:604-1049: the key schedules of all three sizes and the rounds  *)
(* yield the ciphertexts of the example vectors of FIPS 197.                 *)
AnswersAreFips197 ==
    aes_at = "decrypt" /\ aes_round = Nr /\ aes_step = "add" =>
        \A v \in Vectors :
            v.size = keysize /\ SubSeq(v.key, 1, v.size \div 8) = SubSeq(aes_key, 1, keysize \div 8)
                /\ v.block = in_block => FromState(state) = v.out

(* The cipher is that of FIPS 197.                                           *)
CipherIsFips197 == TablesAreFips197 /\ AnswersAreFips197

=============================================================================
