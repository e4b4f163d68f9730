------------------------ MODULE MCScriptConformance -------------------------
EXTENDS ScriptConformance

\* Every opcode execute_opcode knows except OP_2ROT, and one push of each
\* kind (OP_0, OP_1).  OP_RETURN stands for the unknown bytes: both arms are
\* Ok(false) on the stack as it is.  DEPTH and SIZE push the other numbers.
MCOpcodes == {0, 81, 105, 106, 109, 110, 111, 112, 114, 115, 116, 117,
              118, 119, 120, 121, 122, 123, 124, 125, 130, 135, 136, 169, 170,
              172, 173}

\* OP_1, OP_2, OP_2DUP and OP_2ROT: enough to build x1 x2 x1 x2 x1 x2.
MCRotOpcodes == {81, 82, 110, 113}
=============================================================================
