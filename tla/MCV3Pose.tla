------------------------------ MODULE MCV3Pose -------------------------------
EXTENDS V3Pose

\* Seven points of a head of 0.8 units: eyes, nose, mouth, chin and jaw.
Head == <<<<-300, 200, 100>>, <<300, 200, 100>>, <<0, 0, 350>>, <<-150, -250, 200>>,
          <<150, -250, 200>>, <<0, -450, 150>>, <<-400, -100, -200>>>>

\* A camera of the same focal length before it, the head in the middle of the
\* photo and turned; rows count down.
Shot(side, turn) ==
    [points |-> Head, focal |-> side, turn |-> turn,
     seen |-> [i \in DOMAIN Head |->
        LET o == Head[i]
            x == o[1] + ((turn * o[3]) \div Unit)
            z == o[3] - ((turn * o[1]) \div Unit) + 2 * Unit
        IN  <<side \div 2 + ((side * x) \div z), side \div 2 - ((side * o[2]) \div z)>>]]

MCPhotos == {Shot(1024, 0), Shot(1024, 175), Shot(1024, 524), Shot(1024, -524)}
=============================================================================
