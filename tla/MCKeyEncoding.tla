--------------------------- MODULE MCKeyEncoding ---------------------------
(* KeyEncoding for TLC: units with each byte below and above 128, among    *)
(* them a surrogate pair, in every text of up to three.                    *)
EXTENDS KeyEncoding

Units == {0, 65, 233, 8364, 55357, 56832, 65535}

ShortTexts == {<<u>> : u \in Units} \cup Units \X Units
                \cup {<<u[1], u[2], u[3]>> : u \in Units \X Units \X Units}

=============================================================================
