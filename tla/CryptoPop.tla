------------------------------ MODULE CryptoPop ------------------------------
(***************************************************************************)
(* The buffer accesses of the two digest wrappers of                      *)
(* src/src/cryptopop/c_hmac_md5.c: cryptopop_hmac_md5 (14-45) and          *)
(* cryptopop_sha1 (54-71).  The digests themselves are OpenSSL's and are   *)
(* left out; what is modelled is which bytes of which fixed-size stack     *)
(* buffer each step reads or writes, for every input length a caller may   *)
(* pass.  INPUT_LEN and OUTPUT_LEN come from common.h, outside the tree.   *)
(***************************************************************************)
EXTENDS Integers

CONSTANTS
    INPUT_LEN,    \* size of cryptopop_sha1's inputStr buffer
    OUTPUT_LEN,   \* bytes copied to the caller's output
    MaxLen        \* largest inputLen enumerated

MD5_DIGEST_LENGTH == 16
SHA256_DIGEST_LENGTH == 32
SHA_DIGEST_LENGTH == 20

\* The stack buffers and their sizes.
Size == [hmacMd5Digest |-> MD5_DIGEST_LENGTH,
         sha256Digest  |-> SHA256_DIGEST_LENGTH,
         result        |-> 2 * SHA_DIGEST_LENGTH,
         inputStr      |-> INPUT_LEN]

\* Bytes first..first+len-1 of buffer b.
Bytes(b, first, len) == {<<b, k>> : k \in first..first + len - 1}

VARIABLES
    fn,         \* the wrapper called
    inputLen,   \* its inputLen argument
    pc,         \* the step reached
    i,          \* cryptopop_sha1's copy loop index
    accessed    \* <<buffer, index>> pairs read or written so far

vars == <<fn, inputLen, pc, i, accessed>>

Init ==
    /\ fn \in {"hmac_md5", "sha1"}
    /\ inputLen \in 0..MaxLen
    /\ pc = "digest" /\ i = 0 /\ accessed = {}

\* hmac_md5, lines 19-42: HMAC-MD5 keyed and fed with the input into
\* hmacMd5Digest, then SHA-256 of its 16 bytes into sha256Digest.
HmacDigest ==
    /\ fn = "hmac_md5" /\ pc = "digest"
    /\ accessed' = accessed \cup Bytes("hmacMd5Digest", 0, MD5_DIGEST_LENGTH)
                            \cup Bytes("sha256Digest", 0, SHA256_DIGEST_LENGTH)
    /\ pc' = "output"
    /\ UNCHANGED <<fn, inputLen, i>>

\* Line 44: memcpy(output, sha256Digest, OUTPUT_LEN).
HmacOutput ==
    /\ fn = "hmac_md5" /\ pc = "output"
    /\ accessed' = accessed \cup Bytes("sha256Digest", 0, OUTPUT_LEN)
    /\ pc' = "done"
    /\ UNCHANGED <<fn, inputLen, i>>

\* sha1, lines 58-61: SHA-1 of the input into the first half of result.
Sha1Digest ==
    /\ fn = "sha1" /\ pc = "digest"
    /\ accessed' = accessed \cup Bytes("result", 0, SHA_DIGEST_LENGTH)
    /\ pc' = "copy"
    /\ UNCHANGED <<fn, inputLen, i>>

\* Lines 63-65: inputStr[i] = ~(input[i]) for i < inputLen.
Sha1Copy ==
    /\ fn = "sha1" /\ pc = "copy"
    /\ IF i < inputLen
       THEN /\ accessed' = accessed \cup {<<"inputStr", i>>}
            /\ i' = i + 1
            /\ UNCHANGED pc
       ELSE /\ pc' = "digest2"
            /\ UNCHANGED <<accessed, i>>
    /\ UNCHANGED <<fn, inputLen>>

\* Lines 66-68: SHA-1 of inputLen bytes of inputStr into the second half.
Sha1Digest2 ==
    /\ fn = "sha1" /\ pc = "digest2"
    /\ accessed' = accessed \cup Bytes("inputStr", 0, inputLen)
                            \cup Bytes("result", SHA_DIGEST_LENGTH,
                                       SHA_DIGEST_LENGTH)
    /\ pc' = "output"
    /\ UNCHANGED <<fn, inputLen, i>>

\* Line 70: reduce_bit over the 40 bytes of result into output.
Sha1Output ==
    /\ fn = "sha1" /\ pc = "output"
    /\ accessed' = accessed \cup Bytes("result", 0, 2 * SHA_DIGEST_LENGTH)
    /\ pc' = "done"
    /\ UNCHANGED <<fn, inputLen, i>>

Next == HmacDigest \/ HmacOutput \/ Sha1Digest \/ Sha1Copy \/ Sha1Digest2
        \/ Sha1Output

Spec == Init /\ [][Next]_vars

-----------------------------------------------------------------------------
\* Every byte either wrapper reads or writes lies inside its stack buffer,
\* for every inputLen a caller may pass (the wrappers take any uint32_t
\* length and check none).
StackAccessInBounds ==
    \A a \in accessed : a[2] \in 0..Size[a[1]] - 1
=============================================================================
