----------------------------- MODULE MCIocStart -----------------------------
(* Command lines with each option, in the loop and as the last argument;   *)
(* with and without definitions, databases, script and shell.              *)
EXTENDS IocStart

MCCommandLines ==
  { <<>>, <<"-h">>, <<"-D">>, <<"-S">>, <<"-s">>, <<"-a">>, <<"-d", "db1">>,
    <<"st.cmd">>,
    <<"-S", "st.cmd">>,
    <<"-x", "st.cmd">>,
    <<"-a", "acf", "st.cmd">>,
    <<"-D", "dbd", "-m">>,
    <<"-D", "dbd", "-m", "m1", "-d">>,
    <<"-D", "dbd", "-a", "acf", "-d", "db1">>,
    <<"-m", "m1", "-a", "acf", "-m", "m2", "-S", "st.cmd">>,
    <<"-D", "dbd", "-d", "db1", "-m", "m1", "-d", "db2">>,
    <<"-D", "dbd", "-m", "m1", "-d", "db1", "-m", "m2", "-d", "db2", "-S", "st.cmd">> }

=============================================================================
