--------------------------- MODULE MCCommandPath ---------------------------
EXTENDS CommandPath

\* One character that presses nothing, the report, the reset, another button.
Meaning == [c \in Chars |-> CASE c = <<0, 0>> -> "none" [] c = <<1, 0>> -> "S"
                              [] c = <<0, 1>> -> "M"    [] c = <<1, 1>> -> "R"]

\* The two commands that act on the path itself.
SentChars == {<<1, 0>>, <<0, 1>>}

\* Letters and one digit that may change while the report is written.
Report == [d \in 0 .. REPORT_LENGTH - 1 |->
             CASE d = 0 -> {<<1, 1>>} [] OTHER -> {<<0, 1>>, <<0, 0>>}]
=============================================================================
