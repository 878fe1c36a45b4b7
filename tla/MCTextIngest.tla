---------------------------- MODULE MCTextIngest ----------------------------
(* Small instances of TextIngest for TLC: every text of four characters that
   does not begin with a space, and three words of one letter. *)
EXTENDS TextIngest

Letters == {<<2>>, <<4>>, <<5>>, <<LetterLead, Continuation>>}
Separators == {<<Space>>, <<Newline>>}
Characters == Letters \cup Separators \cup {<<MarkLead, Continuation>>}

MCCorpora == {Flatten(c) : c \in {d \in [1 .. 4 -> Characters] : d[1] # <<Space>> /\ d[2] # <<5>>}}
             \cup {Flatten(<<x, s, y, u, z>>) :
                       x, y, z \in Letters, s, u \in Separators}

\* b and aa collide.
MCHashOf(t) == (Len(t) + (IF t[1] = 5 THEN 1 ELSE 0)) % Slots
=============================================================================
