--------------------------- MODULE MCXd3Secondary ---------------------------
EXTENDS Xd3Secondary

Sector5 == {<<0, 0, 0, 0, 0>>, <<0, 1, 0, 1, 2>>, <<3, 4, 5, 3, 4>>, <<0, 1, 2, 3, 4>>, <<5, 5, 5, 5, 1>>,
            <<1, 1, 1, 1, 3>>}
MCSections == [djw |-> {a \o b \o c \o d : a, b, c \in Sector5, d \in {<< >>, <<2>>}},
               fgk |-> [1 .. 3 -> {0, 5}] \cup {<<0, 1, 2, 3, 4, 5>>, <<5, 4, 3, 2, 1, 0>>, <<2, 2, 3, 4, 4, 4, 4, 5>>}]
MCMaxSections == [djw |-> 1, fgk |-> 3]
MCConfigs == [type : {"djw"}, ngroups : {0, 2, 3}, sector_size : {5}, inefficient : BOOLEAN, data_type : {"DATA"}]
        \cup [type : {"fgk"}, ngroups : {0}, sector_size : {0}, inefficient : BOOLEAN, data_type : {"DATA"}]
MCBasic == <<2>>
MCExtra == <<3, 1>>
=============================================================================
