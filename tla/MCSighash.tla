------------------------------ MODULE MCSighash ------------------------------
EXTENDS Sighash

\* Inputs spending one of two coins; transactions of one or two inputs and
\* one or two outputs of value 1 or 2.
MCInputs == {[prevout |-> [hash |-> h, index |-> 0], script_sig |-> <<>>, sequence |-> 0]
             : h \in {1, 2}}
MCOutputs == {[value |-> v, script_pubkey |-> <<>>] : v \in {1, 2}}
MCTxs == {[version |-> 1, lock_time |-> 0, inputs |-> ins, outputs |-> outs]
          : ins \in {<<a>> : a \in MCInputs} \cup {<<a, c>> : a, c \in MCInputs},
            outs \in {<<o>> : o \in MCOutputs} \cup {<<o, p>> : o, p \in MCOutputs}}
=============================================================================
