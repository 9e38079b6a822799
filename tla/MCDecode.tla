------------------------------ MODULE MCDecode ------------------------------
(* Decode for TLC: files of four messages with a short pattern, and files of  *)
(* one message with every pattern of up to five characters and main's own.    *)
EXTENDS Decode

CONSTANTS Alphabet, MaxPattern, MaxMsgs

Patterns == UNION {[1..n -> Alphabet] : n \in 0..MaxPattern}

\* "[%l][%D:%S][%p:%t][%F:%f:%#]%v"
MainPattern == <<"[", "%", "l", "]", "[", "%", "D", ":", "%", "S", "]", "[", "%", "p", ":",
                 "%", "t", "]", "[", "%", "F", ":", "%", "f", ":", "%", "#", "]", "%", "v">>

MCInputs == [pattern : Patterns \cup {MainPattern}, codec : {"zstd"}, msgs : {1}]
            \cup [pattern : {<<"%", "v">>}, codec : Codecs, msgs : {MaxMsgs}]
=============================================================================
