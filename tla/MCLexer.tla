------------------------------ MODULE MCLexer ------------------------------
EXTENDS Lexer

Words == [instruction |-> {<<"x">>}, datatype |-> {<<"b">>}, register |-> {<<"x", "x">>},
          general |-> {<<"x", "1">>}, grammar |-> {<<",">>}]
=============================================================================
