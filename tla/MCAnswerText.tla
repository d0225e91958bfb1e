---------------------------- MODULE MCAnswerText ----------------------------
(* AnswerText on short texts.  The thinking tags are as short as two tags  *)
(* can be that begin alike, end alike and contain a letter.                *)
EXTENDS AnswerText

MCOpenTag == <<"<", "e">>
MCCloseTag == <<"<", "/", "e">>

\* Thinking, English, Chinese, both, and either in brackets.
MCStyles == {{"<", "/", "e"}, {"e", " ", "."}, {"z", "zstop", "emoji"}, {"z", "e", " "},
             {"e", " ", "(", ")"}, {"z", ".", "(", ")"}}
=============================================================================
