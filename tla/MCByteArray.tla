---------------------------- MODULE MCByteArray -----------------------------
(* Small instances of the byte array for TLC. *)
EXTENDS ByteArray

\* A fixed-width number, a negative one, a string behind a variable-length
\* prefix and one that is too long for its prefix.
SomeItems ==
    {<<"fix", 6>>, <<"zig", -4>>, <<"vstr", <<2>>>>, <<"str", <<1, 1, 1, 1>>>>}

BaSpec == BaInit /\ [][BaNext]_baVars
=============================================================================
