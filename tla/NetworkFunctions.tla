--------------------------- MODULE NetworkFunctions ---------------------------
(***************************************************************************)
(* The network functions side by side.  One is chosen when the framework   *)
(* is compiled (mtnf_tenant.c:13-27 and 42-47); its state is initialised   *)
(* once and only its handler is called from then on.  The cipher and its   *)
(* modes are what the two AES functions call; the classifier, which is in  *)
(* every build, runs before any of them and is taken alone as they are.    *)
(* Reassembly, whose handlers share state across tenants, is module Reasm. *)
(***************************************************************************)
EXTENDS Classifier, Nat, Firewall, Ids, AesCipher, AesModes, Handlers

VARIABLE compiled   \* the function compiled in, or "classifier"

functionsVars ==
    <<compiled, classifierVars, natVars, firewallVars, idsVars, cipherVars, modesVars, handlerVars>>

NetworkFunction == 
    {"classifier", "nat", "firewall", "ids", "aes cipher", "aes modes", "handlers"}

FunctionsInit ==
    /\ compiled \in NetworkFunction
    /\ ClassifierInit
    /\ NatInit /\ FirewallInit /\ IdsInit
    /\ CipherInit /\ ModesInit
    /\ HandlersInit
    /\ compiled # "handlers" => handler = "ids"   \* not used

RunClassifier ==
    /\ compiled = "classifier" /\ ClassifierNext
    /\ UNCHANGED <<natVars, firewallVars, idsVars, cipherVars, modesVars, handlerVars>>

RunNat ==
    /\ compiled = "nat" /\ NatNext
    /\ UNCHANGED <<classifierVars, firewallVars, idsVars, cipherVars, modesVars, handlerVars>>

RunFirewall ==
    /\ compiled = "firewall" /\ FirewallNext
    /\ UNCHANGED <<classifierVars, natVars, idsVars, cipherVars, modesVars, handlerVars>>

RunIds ==
    /\ compiled = "ids" /\ IdsNext
    /\ UNCHANGED <<classifierVars, natVars, firewallVars, cipherVars, modesVars, handlerVars>>

RunCipher ==
    /\ compiled = "aes cipher" /\ CipherNext
    /\ UNCHANGED <<classifierVars, natVars, firewallVars, idsVars, modesVars, handlerVars>>

RunModes ==
    /\ compiled = "aes modes" /\ ModesNext
    /\ UNCHANGED <<classifierVars, natVars, firewallVars, idsVars, cipherVars, handlerVars>>

RunHandlers ==
    /\ compiled = "handlers" /\ HandlersNext
    /\ UNCHANGED <<classifierVars, natVars, firewallVars, idsVars, cipherVars, modesVars>>

FunctionsNext ==
    /\ UNCHANGED compiled
    /\ RunClassifier \/ RunNat \/ RunFirewall \/ RunIds \/ RunCipher \/ RunModes \/ RunHandlers

FunctionsSpec == FunctionsInit /\ [][FunctionsNext]_functionsVars

-----------------------------------------------------------------------------
(* Properties *)

(* Every function keeps the types of its state.                              *)
FunctionsTypeOK ==
    /\ compiled \in NetworkFunction
    /\ ClassifierTypeOK
    /\ NatTypeOK
    /\ FirewallTypeOK
    /\ IdsTypeOK
    /\ CipherTypeOK
    /\ ModesTypeOK
    /\ HandlersTypeOK

(* mtnf_aes.c:331-532, 1051-1118: decryption undoes encryption, the cipher   *)
(* round by round and the modes message by message.                          *)
AesIsUndone == RoundsAreUndone /\ ModesAreUndone

=============================================================================
