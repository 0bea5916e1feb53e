---------------------------- MODULE EoCipherSpec ----------------------------
(***************************************************************************)
(* What callers of eo_encrypt_packet and eo_decrypt_packet rely on: a call *)
(* turns the whole packet into its encrypted or decrypted form, at once.   *)
(* Two calls in a row: a packet is encrypted, then decrypted by its        *)
(* receiver, or encrypted again.                                           *)
(***************************************************************************)
EXTENDS EoCipherOps, Sequences

VARIABLES
    length,    \* of the packet
    packet,    \* its bytes
    multiple,  \* the swap multiple both sides agreed on
    calls      \* the calls that are still to be made

specVars == <<length, packet, multiple, calls>>

SpecInit ==
    /\ length \in Nat
    /\ packet \in Packets(length)
    /\ multiple \in Nat \ {0}
    /\ calls \in {<<"encrypt", "decrypt">>, <<"encrypt", "encrypt">>}

Call ==
    /\ calls # << >>
    /\ packet' = CipherOf(Head(calls), length, packet, multiple)
    /\ calls' = Tail(calls)
    /\ UNCHANGED <<length, multiple>>

AtOnce == SpecInit /\ [][Call]_specVars
=============================================================================
