---------------------------- MODULE MCHandshakes ----------------------------
(* One connection; the rows, events and frames below reach every branch of  *)
(* the classifiers, with two recon events kept of up to three.              *)
EXTENDS Handshakes

MCConnRows ==
  {[proto |-> "tcp", history |-> h, missed |-> m] :
     h \in {{"S", "h", "D", "F"}, {"S", "h", "D"}, {"h", "D", "F"}, {"S"}}, m \in {0, 5}}
  \cup {[proto |-> "udp", history |-> {}, missed |-> 0]}

Recon(type, seq, len) == [type |-> type, seq |-> seq, len |-> len]

MCReconShapes ==
  {Recon("seq_gap", 1, 4), Recon("seq_gap", 9, 2), Recon("seq_gap", 0, 3),
   Recon("out_of_order", 5, 2), Recon("duplicate", 3, 2), Recon("overlap", 4, 2),
   Recon("rexmit", 6, 3), Recon("rexmit_inconsistency", 0, 2), Recon("packet", 0, 0)}

MCSuites == {"tls13", "unknown", "ECDHE", "RSA", "DHE-PSK"}

Row(h, est, res, sup, leg, suite, group, curve, psk) ==
  [uid |-> "u1", history |-> h, established |-> est, resumed |-> res, supported |-> sup,
   legacy |-> leg, version |-> leg, cipher |-> suite, group |-> group, curve |-> curve,
   clientShares |-> group = NoGroup /\ curve = None /\ psk = {}, psk |-> psk]

Histories ==
  {<< >>, <<"C">>, <<"s", "x">>, <<"C", "s", "x", "n", "flip", "f", "f">>,
   <<"C", "j", "C", "s", "o">>, <<"C", "s", "x", "y", "X", "Y">>}

MCSslRows ==
  {Row(h, est, FALSE, None, v, c, NoGroup, None, {}) :
     h \in Histories, est \in BOOLEAN, v \in {None, "TLSv10", "DTLSv12"}, c \in MCSuites \cup {None}}
  \cup {Row(h, TRUE, res, "TLSv13", "TLSv12", "ECDHE", g, curve, psk) :
          h \in Histories, res \in BOOLEAN, g \in {NoGroup, 29, 256, 258, 4588, 9999},
          curve \in {None, "ec"}, psk \in {{}, {"psk_ke"}, {"psk_ke", "psk_dhe_ke"}}}

MCGroupNames == [c \in {29, 256, 4588} |->
                   CASE c = 29 -> "ec" [] c = 256 -> "ffdhe" [] OTHER -> "mlkem"]

HelloFrame(types, group) ==
  [types |-> types, group |-> group, numbered |-> TRUE, algorithm |-> None]

MCHelloFrames ==
  {HelloFrame(<<"client_hello">>, NoGroup), HelloFrame(<<"server_hello", "certificate">>, NoGroup),
   HelloFrame(<<"server_hello">>, 29),
   [HelloFrame(<<"certificate", "certificate_verify">>, NoGroup) EXCEPT !.algorithm = "ed25519"],
   [HelloFrame(<<"client_hello">>, NoGroup) EXCEPT !.numbered = FALSE]}
=============================================================================
