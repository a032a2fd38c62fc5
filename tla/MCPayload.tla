------------------------------ MODULE MCPayload ------------------------------
(* TLC instances of PayloadPath.  The buckets are the code's; only a byte is   *)
(* smaller, since 256^4 is beyond TLC's integers.                              *)
EXTENDS PayloadPath

\* With the JSON around it, a body of this length needs a bucket's size exactly.
Exact(bucket) == bucket - PAD_LEN_BYTES - 11 - 14 - GROUP_ID_LEN

\* On, below and above every boundary a size of a bucket makes.
MCBodyLens ==
    {0} \cup UNION {{Exact(b) + d : d \in {-17, -1, 0, 1, 60}} :
                       b \in {256, 512, 32768, 65536, 131072, 196608}}
=============================================================================
