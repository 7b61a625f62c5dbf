---------------------------- MODULE MCValueScanner ----------------------------
(* All texts of up to three characters, and longer ones of every token.    *)
EXTENDS Naturals, Sequences

Alphabet == {"n", "m", "M", "w", "0", ":", " ", "~", "&", "<", "!", "?", "-", "[", "]", "(", ")",
             ",", "|", "%", "#", ";", "'", ">", "*"}
Short == UNION {[1..k -> Alphabet] : k \in 0..2} \cup
         {<<a, b, c>> : a \in {"<", "]", ")", "%", "#", "n", "'", "0", "w"}, b \in Alphabet, c \in Alphabet}

Tail2(prefix) == {prefix \o <<a, b>> : a, b \in {"n", " ", "~", "-", ">", "?", "%", "]", "&", "M"}}
Long == UNION {Tail2(p) : p \in
          { <<"<", "!", "-", "-">>, <<"<", "!", "-", "-", "n", "-">>, <<"<", "!", "n">>,
            <<"<", "?", "n">>, <<"<", "?", "m">>, <<"<", "?", "m", " ">>, <<"<", "?", "M", "?">>,
            <<"n", ":", "n">>, <<"n", ":">>, <<"]", "]", "]">>, <<"#", "n", "n">>, <<"%", "n", "n">>,
            <<"\"", "'">>, <<"<", "!", "n", "%">>,
            <<"<", "?", "m", " ", "?", ">", "<", "?", "m", "?", ">">> }}
        \cup { <<"n", " ", "<", "?", "m", "?", ">", "<", "?", "m", "?", ">", "~">>,
               <<"(", "n", "|", "n", ")", "*", ">">>, <<"]", "]", "]", ">">> }

MCTexts == Short \cup Long
=============================================================================
