------------------------------ MODULE MCGroup -------------------------------
(* TLC instance of GroupFanout: three devices, two of which never met.         *)
EXTENDS GroupFanout

CONSTANTS a, b, c

MCDevices == {a, b, c}
MCStrangers == {{b, c}}

\* A list with a repetition: for b and c there is a stranger between the entries.
MCGivenLists == {<<a, c, a>>}

\* The smallest file, the largest that fits the middleware's limit for media with its
\* nonce and MAC, one byte more, and one that is too large for encrypt_file.
MCSizes ==
    {0, 100 * MiB + 1} \cup {100 * MiB - NONCEBYTES - MACBYTES + d : d \in {0, 1}}

\* The route of the protocol document, and one the larger limit is meant for.
MCDocumented == {<<"api", "v1", "media">>}
MCBelowPrefix == {<<"api", "v1", "media", "upload">>}
=============================================================================
