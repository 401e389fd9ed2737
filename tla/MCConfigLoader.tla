--------------------------- MODULE MCConfigLoader ---------------------------
(***************************************************************************)
(* Configuration files for TLC: two or three sections made of the lines    *)
(* below, complete and incomplete, duplicates, with a domain of their own, *)
(* and separated by comments, headers of other sections and unclosed ones. *)
(***************************************************************************)
EXTENDS ConfigLoader

CONSTANTS a1, a2

MCToken == {".", "web", "WEB", "ftp", "host", "_http", "_tcp", "local"}
MCUnderscored == {"_http", "_tcp"}
MCLower == [t \in MCToken |-> IF t = "WEB" THEN "web" ELSE t]
MCOctets == [t \in MCToken |-> 1]
MCLocal == <<"local">>

L(kind, name) == [kind |-> kind, name |-> name, text |-> << >>, num |-> 0]
Key(name, text) == [L("key", name) EXCEPT !.text = text]
Number(name, num) == [L("key", name) EXCEPT !.num = num]

Header == L("header", "service")
Base == <<Key("type", <<"_http", ".", "_tcp">>), Number("port", 80),
          Key("target", <<"host">>)>>

Bodies == {
    <<Key("instance", <<"web">>)>> \o Base,
    <<L("blank", "")>> \o Base \o <<Key("txt.a", <<"web">>), Key("instance", <<"WEB">>),
                                    Key("txt.b", <<"web">>)>>,
    Base,
    Base \o <<L("junk", ""), Key("instance", <<"ftp">>), Number("ttl", 0), Number("weight", 1),
              Key("instance", <<"host">>), Key("domain", <<"local">>)>>,
    Base \o <<Key("instance", <<"ftp">>), Number("port", 65536)>>,
    Base \o <<Key("instance", <<"ftp">>), Number("port", 65537)>>,
    Base \o <<Key("domain", <<"host">>)>>}

Separators == {<< >>, <<L("unclosed", "")>>, <<L("header", "other"), Number("port", 8080)>>}

MCFiles ==
    {<< Header >> \o b \o s \o << Header >> \o c : b \in Bodies, c \in Bodies, s \in Separators}
    \cup {<<L("junk", "")>> \o b \o <<Header, Header>> \o b : b \in Bodies}
=============================================================================
