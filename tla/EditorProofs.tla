---------------------------- MODULE EditorProofs ----------------------------
(***************************************************************************)
(* Proofs about the editor of the app and the drafts it saves, and about the *)
(* run that puts them together with the portal.                            *)
(***************************************************************************)
EXTENDS MCClients, SessionProofs, SequenceTheorems, TLAPS
LOCAL INSTANCE SequencesExt

-----------------------------------------------------------------------------
(***************************************************************************)
(* CanvasEditor, for any layers, scenes, drags and pinches: what a handler of *)
(* the editor touched is on the canvas and clear of the bands.             *)
(*                                                                         *)
(* The invariant is the types and the property. What takes a proof is the  *)
(* arithmetic of heights, in units of a millionth of the canvas: that a font *)
(* of any size the pinch allows leaves room between the bands (SizesAre), and *)
(* that clamping lands in it (SafeYIs).                                    *)
(***************************************************************************)

\* The quotient of a bounded number by a height.
LEMMA QuotientIs ==
  ASSUME NEW n \in Nat, NEW d \in Nat, d >= 1024, n <= 1178496000
  PROVE  n \div d \in Nat /\ n \div d <= 1150875
<1>1. n \div d \in Int /\ n = d * (n \div d) + (n % d) /\ n % d \in 0..(d - 1)
  BY SMT
<1>2. DEFINE q == n \div d
<1>. HIDE DEF q
<1>3. q \in Int /\ d * q <= n /\ n < d * q + d
  BY <1>1 DEF q
<1>4. q >= 0
  BY <1>3
<1>5. q <= 1150875
  <2>1. SUFFICES ASSUME q >= 1150876 PROVE FALSE
    BY <1>3
  <2>2. d * q >= 1024 * q
    BY <1>3, <1>4
  <2>. QED BY <1>3, <2>1, <2>2
<1>. QED BY <1>3, <1>4, <1>5 DEF q

\* Taking out an element closes the gap it leaves.
LEMMA RemovedIs ==
  ASSUME NEW S, NEW seq \in Seq(S), NEW k \in 1..Len(seq)
  PROVE  /\ RemoveAt(seq, k) \in Seq(S)
         /\ Len(RemoveAt(seq, k)) = Len(seq) - 1
         /\ \A i \in 1..(Len(seq) - 1) :
              RemoveAt(seq, k)[i] = seq[IF i < k THEN i ELSE i + 1]
<1>. DEFINE before == SubSeq(seq, 1, k - 1)
            after  == SubSeq(seq, k + 1, Len(seq))
<1>1. /\ before \in Seq(S) /\ Len(before) = k - 1
      /\ \A i \in 1..(k - 1) : before[i] = seq[i]
  <2>1. \A i \in 1..(k - 1) : seq[i] \in S
    OBVIOUS
  <2>. QED BY <2>1, SubSeqProperties
<1>2. /\ after \in Seq(S) /\ Len(after) = Len(seq) - k
      /\ \A i \in 1..(Len(seq) - k) : after[i] = seq[k + i]
  <2>1. \A i \in (k + 1)..Len(seq) : seq[i] \in S
    OBVIOUS
  <2>2. /\ after \in Seq(S)
        /\ Len(after) = IF k + 1 <= Len(seq) THEN Len(seq) - (k + 1) + 1 ELSE 0
        /\ \A i \in 1..(Len(seq) - (k + 1) + 1) : after[i] = seq[(k + 1) + i - 1]
    BY <2>1, SubSeqProperties
  <2>. QED BY <2>2
<1>3. RemoveAt(seq, k) = before \o after
  BY DEF RemoveAt
<1>. HIDE DEF before, after
<1>4. /\ before \o after \in Seq(S)
      /\ Len(before \o after) = Len(before) + Len(after)
      /\ \A i \in 1..(Len(before) + Len(after)) :
           (before \o after)[i] = IF i <= Len(before) THEN before[i] ELSE after[i - Len(before)]
  BY <1>1, <1>2, ConcatProperties
<1>5. ASSUME NEW i \in 1..(Len(seq) - 1)
      PROVE  (before \o after)[i] = seq[IF i < k THEN i ELSE i + 1]
  <2>0. /\ k \in Nat /\ Len(seq) \in Nat /\ i \in 1..(Len(before) + Len(after))
        /\ (before \o after)[i] = IF i <= Len(before) THEN before[i] ELSE after[i - Len(before)]
    BY <1>1, <1>2, <1>4
  <2>1. CASE i < k
    BY <2>0, <2>1, <1>1
  <2>2. CASE i >= k
    <3>1. (before \o after)[i] = after[i - (k - 1)]
      BY <2>0, <2>2, <1>1
    <3>2. i - (k - 1) \in 1..(Len(seq) - k) /\ k + (i - (k - 1)) = i + 1
      BY <2>0, <2>2
    <3>3. after[i - (k - 1)] = seq[i + 1]
      BY <3>2, <1>2
    <3>. QED BY <3>1, <3>3, <2>2, <2>0
  <2>. QED BY <2>0, <2>1, <2>2
<1>. QED BY <1>1, <1>2, <1>3, <1>4, <1>5

-----------------------------------------------------------------------------
\* The bands and the box, in units.
LEMMA SizesAre ==
  /\ Unit = 34560 /\ Grid = 3456000 /\ BoxWidth = 2764800
  /\ TopObstruction = 345600 /\ BottomObstruction = 518400
BY DEF Unit, Grid, BoxWidth, TopObstruction, BottomObstruction

\* They are whole numbers.
LEMMA SizesAreWhole == Grid \in Int /\ BoxWidth \in Int
BY SizesAre

\* A layer is clear when its box is on the canvas and its text between the bands.
LEMMA ClearIs ==
  ASSUME NEW layer, layer.x \in 0..(Grid - BoxWidth), TopObstruction <= layer.y,
         NEW height, layer.y + Tall(layer.font, height) <= Grid - BottomObstruction
  PROVE  Clear(layer, height)
<1>1. 0 <= layer.x /\ layer.x + BoxWidth <= Grid
  BY SizesAreWhole
<1>. QED BY <1>1 DEF Clear

\* What is clamped lies within its bounds.
LEMMA ClampIs ==
  ASSUME NEW n \in Int, NEW low \in Int, NEW high \in Int, low <= high
  PROVE  Clamp(n, low, high) \in low..high
BY DEF Clamp

SceneOK ==
  /\ \A i, j \in DOMAIN Layers : Layers[i].id = Layers[j].id => i = j
  /\ (scene.height = 0 /\ Layers = <<>>) \/ scene.height >= MinHeight

EditorInv == EditorTypeOK /\ SceneOK /\ LayersClear

\* Every layer, however large, fits between the bands.
LEMMA TallIs ==
  ASSUME NEW font \in MinFont..MaxFont, NEW height \in Nat, height >= MinHeight
  PROVE  Tall(font, height) \in Nat /\ Tall(font, height) <= Grid - BottomObstruction - TopObstruction
<1>1. font * 155 * Unit \in Nat /\ font * 155 * Unit <= 1178496000
  BY DEF MinFont, MaxFont, Unit
<1>. DEFINE n == font * 155 * Unit
<1>2. n \in Nat /\ n <= 1178496000 /\ Tall(font, height) = n \div height
  BY <1>1 DEF Tall
<1>. HIDE DEF n
<1>3. n \div height \in Nat /\ n \div height <= 1150875
  BY <1>2, QuotientIs DEF MinHeight
<1>. QED BY <1>2, <1>3 DEF Grid, BottomObstruction, TopObstruction, Unit

\* The height a handler gives a layer keeps it between the bands.
LEMMA SafeYIs ==
  ASSUME NEW y \in Int, NEW font \in MinFont..MaxFont, NEW height \in Nat, height >= MinHeight
  PROVE  /\ SafeY(y, font, height) \in Int
         /\ TopObstruction <= SafeY(y, font, height)
         /\ SafeY(y, font, height) + Tall(font, height) <= Grid - BottomObstruction
<1>. DEFINE t == Tall(font, height)
<1>1. t \in Nat /\ t <= Grid - BottomObstruction - TopObstruction
  BY TallIs
<1>2. SafeY(y, font, height) =
        (IF Grid - BottomObstruction - t < TopObstruction THEN TopObstruction
         ELSE Clamp(y, TopObstruction, Grid - BottomObstruction - t))
  BY DEF SafeY
<1>. HIDE DEF t
<1>3. Grid \in Int /\ BottomObstruction \in Int /\ TopObstruction \in Int
  BY DEF Grid, BottomObstruction, TopObstruction, Unit
<1>4. /\ SafeY(y, font, height) \in Int
      /\ TopObstruction <= SafeY(y, font, height)
      /\ SafeY(y, font, height) + t <= Grid - BottomObstruction
  BY <1>1, <1>2, <1>3 DEF Clamp
<1>. QED BY <1>4 DEF t

\* The editor opens without a scene.
LEMMA EditorInitInv == EditorInit => EditorInv
BY EmptySeq DEF EditorInit, EditorInv, EditorTypeOK, SceneOK, LayersClear, IdsIn, Layers

\* A scene is loaded: none of its layers has been touched.
LEMMA StepLoaded == EditorInv /\ SceneLoaded => EditorInv'
<1>. SUFFICES ASSUME EditorInv, SceneLoaded PROVE EditorInv'
  OBVIOUS
<1>1. placed = {} /\ carried = {}
  BY DEF EditorInv, EditorTypeOK, SceneOK, SceneLoaded, Ready, Layers, IdsIn, MinHeight
<1>2. PICK s \in Scenes : scene' = s
  BY DEF SceneLoaded
<1>3. /\ s \in [height: Nat, layers: Seq(LayerRecs)] /\ s.height >= MinHeight
      /\ \A i, j \in DOMAIN s.layers : s.layers[i].id = s.layers[j].id => i = j
  BY SceneAssumption DEF SceneAssumption
<1>4. placed' = {} /\ carried' = {} /\ selected' = NoLayer
  BY <1>1 DEF SceneLoaded
<1>. QED BY <1>2, <1>3, <1>4 DEF EditorInv, EditorTypeOK, SceneOK, LayersClear, Layers, IdsIn

\* Selecting moves nothing.
LEMMA StepSelected ==
  ASSUME EditorInv, NEW id \in IdsIn(Layers) \cup {NoLayer}, LayerSelected(id)
  PROVE  EditorInv'
BY DEF EditorInv, EditorTypeOK, SceneOK, LayersClear, Layers, IdsIn, LayerSelected

\* A layer was put where it is clear, and the others were left alone.
LEMMA StepPlaced ==
  ASSUME EditorInv, Ready, NEW i \in DOMAIN Layers, NEW new \in LayerRecs,
         new.id = Layers[i].id, Clear(new, scene.height),
         scene' = [scene EXCEPT !.layers[i] = new], Touched(Layers[i].id), UNCHANGED selected
  PROVE  EditorInv'
<1>. DEFINE old == scene.layers
            set == [old EXCEPT ![i] = new]
<1>0. old \in Seq(LayerRecs) /\ i \in 1..Len(old) /\ DOMAIN old = 1..Len(old)
  BY DEF EditorInv, EditorTypeOK, Layers
<1>1. /\ set \in Seq(LayerRecs) /\ DOMAIN set = DOMAIN old
      /\ set[i] = new /\ \A j \in DOMAIN old \ {i} : set[j] = old[j]
  BY <1>0
<1>2. scene' = [scene EXCEPT !.layers = set]
  BY DEF Layers
<1>3. scene'.height = scene.height /\ scene'.layers = set /\ scene' \in [height: Nat, layers: Seq(LayerRecs)]
  BY <1>1, <1>2 DEF EditorInv, EditorTypeOK
<1>4. \A j \in DOMAIN old : set[j].id = old[j].id
  BY <1>0, <1>1 DEF Layers
<1>. HIDE DEF set
<1>5. IdsIn(Layers)' = IdsIn(Layers)
  BY <1>1, <1>3, <1>4 DEF IdsIn, Layers
<1>6. EditorTypeOK'
  <2>1. Layers[i].id \in IdsIn(Layers)
    BY DEF IdsIn
  <2>2. placed' \subseteq IdsIn(Layers) /\ carried' \subseteq IdsIn(Layers)
    BY <2>1 DEF Touched, EditorInv, EditorTypeOK
  <2>. QED BY <1>3, <1>5, <2>2 DEF EditorInv, EditorTypeOK
<1>7. SceneOK'
  <2>1. \A j, k \in DOMAIN old : old[j].id = old[k].id => j = k
    BY DEF EditorInv, SceneOK, Layers
  <2>2. scene.height >= MinHeight
    BY DEF EditorInv, SceneOK, Ready
  <2>. QED BY <2>1, <2>2, <1>1, <1>3, <1>4 DEF SceneOK, Layers
<1>8. LayersClear'
  <2>. SUFFICES ASSUME NEW j \in DOMAIN old, set[j].id \in placed' PROVE Clear(set[j], scene.height)
    BY <1>1, <1>3 DEF LayersClear, Layers
  <2>1. CASE j = i
    BY <2>1, <1>1
  <2>2. CASE j # i
    <3>1. old[j].id # old[i].id
      BY <2>2 DEF EditorInv, SceneOK, Layers
    <3>2. old[j].id \in placed
      BY <3>1, <1>4 DEF Touched, Layers
    <3>. QED BY <3>2, <2>2, <1>1 DEF EditorInv, LayersClear, Layers
  <2>. QED BY <2>1, <2>2
<1>. QED BY <1>6, <1>7, <1>8 DEF EditorInv

\* There are no layers to touch before the scene is there.
LEMMA LayerIs ==
  ASSUME EditorInv, NEW i \in DOMAIN Layers
  PROVE  Ready /\ Layers[i] \in LayerRecs /\ scene.height \in Nat /\ scene.height >= MinHeight
<1>1. Layers \in Seq(LayerRecs) /\ scene.height \in Nat
  BY DEF EditorInv, EditorTypeOK, Layers
<1>2. Layers # <<>>
  OBVIOUS
<1>3. scene.height >= MinHeight
  BY <1>2 DEF EditorInv, SceneOK
<1>. QED BY <1>1, <1>3 DEF Ready, MinHeight

\* A drag puts the layer inside the canvas and between the bands.
LEMMA StepDragged ==
  ASSUME EditorInv, NEW i \in DOMAIN Layers, NEW at \in Drags, LayerDragged(i, at)
  PROVE  EditorInv'
<1>. DEFINE layer == Layers[i]
            x == Clamp(at.x, 0, Grid - BoxWidth)
            y == SafeY(at.y, layer.font, scene.height)
            moved == [layer EXCEPT !.x = x, !.y = y]
<1>1. layer \in LayerRecs /\ scene.height \in Nat /\ scene.height >= MinHeight /\ Ready
  BY LayerIs
<1>2. at.x \in Int /\ at.y \in Int
  BY SceneAssumption DEF SceneAssumption
<1>3. x \in 0..(Grid - BoxWidth)
  <2>1. Grid - BoxWidth \in Int /\ 0 <= Grid - BoxWidth
    BY SizesAre
  <2>2. DEFINE room == Grid - BoxWidth
  <2>. HIDE DEF room
  <2>3. room \in Int /\ 0 <= room
    BY <2>1 DEF room
  <2>4. Clamp(at.x, 0, room) \in 0..room
    BY ONLY <2>3, <1>2 DEF Clamp
  <2>. QED BY <2>4 DEF room
<1>4. /\ y \in Int /\ TopObstruction <= y
      /\ y + Tall(layer.font, scene.height) <= Grid - BottomObstruction
  BY <1>1, <1>2, SafeYIs DEF LayerRecs
<1>5. scene' = [scene EXCEPT !.layers[i] = moved] /\ Touched(layer.id) /\ UNCHANGED selected
  BY DEF LayerDragged
<1>. HIDE DEF x, y, layer
<1>6. moved \in LayerRecs /\ moved.id = layer.id /\ moved.x = x /\ moved.y = y /\ moved.font = layer.font
  BY <1>1, <1>3, <1>4 DEF LayerRecs
<1>. HIDE DEF moved
<1>7. Clear(moved, scene.height)
  BY <1>3, <1>4, <1>6, ClearIs
<1>. QED BY <1>1, <1>5, <1>6, <1>7, StepPlaced DEF layer

\* A pinch keeps the font within its bounds, and moves the layer back where it has grown over a
\* band.
LEMMA StepScaled ==
  ASSUME EditorInv, NEW i \in DOMAIN Layers, NEW font \in Pinches, LayerScaled(i, font)
  PROVE  EditorInv'
<1>. DEFINE layer == Layers[i]
            size == Clamp(font, MinFont, MaxFont)
            y == SafeY(layer.y, size, scene.height)
            grown == [layer EXCEPT !.font = size, !.y = y]
<1>1. layer \in LayerRecs /\ scene.height \in Nat /\ scene.height >= MinHeight /\ Ready
  BY LayerIs
<1>2. font \in Int
  BY SceneAssumption DEF SceneAssumption
<1>3. size \in MinFont..MaxFont
  BY <1>2 DEF Clamp, MinFont, MaxFont
<1>4. /\ y \in Int /\ TopObstruction <= y
      /\ y + Tall(size, scene.height) <= Grid - BottomObstruction
  <2>. HIDE DEF size
  <2>. QED BY <1>1, <1>3, SafeYIs DEF LayerRecs
<1>5. scene' = [scene EXCEPT !.layers[i] = grown] /\ Touched(layer.id) /\ UNCHANGED selected
  BY DEF LayerScaled
<1>. HIDE DEF size, y, layer
<1>6. grown \in LayerRecs /\ grown.id = layer.id /\ grown.x = layer.x /\ grown.y = y /\ grown.font = size
  BY <1>1, <1>3, <1>4 DEF LayerRecs
<1>. HIDE DEF grown
<1>7. Clear(grown, scene.height)
  <2>1. layer.x \in 0..(Grid - BoxWidth)
    BY <1>1 DEF LayerRecs
  <2>. QED BY <2>1, <1>4, <1>6, ClearIs
<1>. QED BY <1>1, <1>5, <1>6, <1>7, StepPlaced DEF layer

\* A new layer is put between the bands, under an id of its own.
LEMMA StepAdded ==
  ASSUME EditorInv, NEW id \in LayerIds, LayerAdded(id)
  PROVE  EditorInv'
<1>. DEFINE old == scene.layers
            y == SafeY((35 + 15 * Len(Layers)) * Unit, DefaultFont, scene.height)
            new == [id |-> id, x |-> 10 * Unit, y |-> y, font |-> DefaultFont]
            all == Append(old, new)
<1>1. /\ old \in Seq(LayerRecs) /\ Len(old) \in Nat /\ DOMAIN old = 1..Len(old)
      /\ scene.height \in Nat /\ scene.height >= MinHeight
  BY DEF EditorInv, EditorTypeOK, SceneOK, LayerAdded, Ready, Layers
<1>2. /\ y \in Int /\ TopObstruction <= y
      /\ y + Tall(DefaultFont, scene.height) <= Grid - BottomObstruction
  <2>1. (35 + 15 * Len(Layers)) * Unit \in Int /\ DefaultFont \in MinFont..MaxFont
    BY <1>1 DEF Layers, Unit, DefaultFont, MinFont, MaxFont
  <2>. QED BY <2>1, <1>1, SafeYIs
<1>3. /\ scene' = [scene EXCEPT !.layers = all] /\ selected' = id
      /\ Touched(id) /\ id \notin IdsIn(Layers)
  BY DEF LayerAdded, Layers
<1>. HIDE DEF y
<1>4. new \in LayerRecs /\ new.id = id
  <2>1. 10 * Unit \in 0..(Grid - BoxWidth)
    <3>1. 10 * Unit = 345600 /\ Grid - BoxWidth = 691200
      BY SizesAre
    <3>. QED BY <3>1
  <2>2. DefaultFont \in MinFont..MaxFont
    BY DEF DefaultFont, MinFont, MaxFont
  <2>. QED BY <2>1, <2>2, <1>2 DEF LayerRecs
<1>5. Clear(new, scene.height)
  BY <1>2, SizesAre DEF Clear
<1>. HIDE DEF new
<1>6. /\ all \in Seq(LayerRecs) /\ Len(all) = Len(old) + 1 /\ DOMAIN all = 1..(Len(old) + 1)
      /\ all[Len(old) + 1] = new /\ \A i \in DOMAIN old : all[i] = old[i]
  BY <1>1, <1>4
<1>. HIDE DEF all
<1>7. scene'.height = scene.height /\ scene'.layers = all /\ scene' \in [height: Nat, layers: Seq(LayerRecs)]
  BY <1>3, <1>6 DEF EditorInv, EditorTypeOK
<1>8. IdsIn(Layers)' = IdsIn(Layers) \cup {id}
  BY <1>1, <1>4, <1>6, <1>7, SMTT(20) DEF IdsIn, Layers
<1>9. EditorTypeOK'
  BY <1>3, <1>7, <1>8 DEF EditorInv, EditorTypeOK, Touched
<1>10. SceneOK'
  <2>1. \A i \in DOMAIN old : old[i].id # id
    BY <1>3 DEF IdsIn, Layers
  <2>2. \A i, j \in DOMAIN old : old[i].id = old[j].id => i = j
    BY DEF EditorInv, SceneOK, Layers
  <2>. QED BY SMTT(20), <2>1, <2>2, <1>1, <1>4, <1>6, <1>7 DEF SceneOK, Layers
<1>11. LayersClear'
  <2>. SUFFICES ASSUME NEW i \in DOMAIN all, all[i].id \in placed' PROVE Clear(all[i], scene.height)
    BY <1>7 DEF LayersClear, Layers
  <2>1. CASE i = Len(old) + 1
    BY <2>1, <1>5, <1>6
  <2>2. CASE i \in DOMAIN old
    <3>1. all[i] = old[i] /\ old[i].id # id
      BY <2>2, <1>3, <1>6 DEF IdsIn, Layers
    <3>2. old[i].id \in placed
      BY <3>1, <1>3 DEF Touched
    <3>. QED BY <2>2, <3>1, <3>2 DEF EditorInv, LayersClear, Layers
  <2>. QED BY <2>1, <2>2, <1>1, <1>6
<1>. QED BY <1>9, <1>10, <1>11 DEF EditorInv

\* The layers after the one that is removed move up.
LEMMA StepRemoved ==
  ASSUME EditorInv, NEW k \in DOMAIN Layers, LayerRemoved(k)
  PROVE  EditorInv'
<1>. DEFINE old == scene.layers
            id == Layers[k].id
            left == RemoveAt(old, k)
            At(i) == IF i < k THEN i ELSE i + 1
<1>1. /\ old \in Seq(LayerRecs) /\ Len(old) \in Nat /\ DOMAIN old = 1..Len(old) /\ k \in 1..Len(old)
      /\ scene.height >= MinHeight /\ old[k].id = id
      /\ \A i, j \in DOMAIN old : old[i].id = old[j].id => i = j
  BY LayerIs DEF EditorInv, EditorTypeOK, SceneOK, Layers
<1>2. /\ scene' = [scene EXCEPT !.layers = left]
      /\ selected' = IF selected = id THEN NoLayer ELSE selected
      /\ placed' = placed \ {id} /\ carried' = carried \ {id}
  BY DEF LayerRemoved, Layers
<1>3. /\ left \in Seq(LayerRecs) /\ Len(left) = Len(old) - 1 /\ DOMAIN left = 1..(Len(old) - 1)
      /\ \A i \in DOMAIN left : left[i] = old[At(i)]
  <2>1. /\ left \in Seq(LayerRecs) /\ Len(left) = Len(old) - 1
        /\ \A i \in 1..(Len(old) - 1) : left[i] = old[At(i)]
    BY <1>1, RemovedIs
  <2>. HIDE DEF left, At
  <2>2. DOMAIN left = 1..(Len(old) - 1)
    BY <2>1
  <2>. QED BY <2>1, <2>2
<1>. HIDE DEF left, id
<1>4. scene'.height = scene.height /\ scene'.layers = left /\ scene' \in [height: Nat, layers: Seq(LayerRecs)]
  BY <1>2, <1>3 DEF EditorInv, EditorTypeOK
<1>5. \A i \in DOMAIN left : At(i) \in DOMAIN old /\ At(i) # k
  BY <1>1, <1>3
<1>6. \A j \in DOMAIN old \ {k} : \E i \in DOMAIN left : At(i) = j
  <2>. TAKE j \in DOMAIN old \ {k}
  <2>1. CASE j < k
    BY <2>1, <1>1, <1>3
  <2>2. CASE j > k
    <3>1. j - 1 \in DOMAIN left /\ At(j - 1) = j
      BY <2>2, <1>1, <1>3
    <3>. QED BY <3>1
  <2>. QED BY <2>1, <2>2, <1>1
<1>7. \A i, j \in DOMAIN left : At(i) = At(j) => i = j
  BY <1>1, <1>3
<1>. HIDE DEF At
<1>8. IdsIn(Layers)' = IdsIn(Layers) \ {id}
  <2>1. IdsIn(left) \subseteq IdsIn(old) \ {id}
    BY <1>1, <1>3, <1>5 DEF IdsIn
  <2>2. IdsIn(old) \ {id} \subseteq IdsIn(left)
    <3>. SUFFICES ASSUME NEW j \in DOMAIN old, old[j].id # id PROVE old[j].id \in IdsIn(left)
      BY DEF IdsIn
    <3>1. PICK i \in DOMAIN left : At(i) = j
      BY <1>1, <1>6
    <3>. QED BY <3>1, <1>3 DEF IdsIn
  <2>. QED BY <2>1, <2>2, <1>4 DEF Layers
<1>9. EditorTypeOK'
  BY <1>2, <1>4, <1>8 DEF EditorInv, EditorTypeOK
<1>10. SceneOK'
  BY <1>1, <1>3, <1>4, <1>5, <1>7 DEF SceneOK, Layers
<1>11. LayersClear'
  <2>. SUFFICES ASSUME NEW i \in DOMAIN left, left[i].id \in placed' PROVE Clear(left[i], scene.height)
    BY <1>4 DEF LayersClear, Layers
  <2>. QED BY <1>2, <1>3, <1>5 DEF EditorInv, LayersClear, Layers
<1>. QED BY <1>9, <1>10, <1>11 DEF EditorInv

\* A new ratio leaves no layer that was touched under it.
LEMMA StepRatio ==
  ASSUME EditorInv, NEW height \in RatioHeights, AspectRatioChanged(height)
  PROVE  EditorInv'
<1>1. height \in Nat /\ height >= MinHeight
  BY DEF RatioHeights, MinHeight
<1>2. scene'.height = height /\ scene'.layers = scene.layers /\ scene' \in [height: Nat, layers: Seq(LayerRecs)]
  BY <1>1 DEF AspectRatioChanged, EditorInv, EditorTypeOK
<1>3. placed' = {} /\ carried' \subseteq IdsIn(Layers) /\ selected' = selected
  BY DEF AspectRatioChanged, IdsIn
<1>. QED BY <1>1, <1>2, <1>3 DEF EditorInv, EditorTypeOK, SceneOK, LayersClear, Layers, IdsIn

\* The invariant holds of every behaviour of the editor.
THEOREM EditorHolds == EditorSpec => []EditorInv
<1>1. EditorInit => EditorInv
  BY EditorInitInv
<1>2. EditorInv /\ [EditorNext]_editorVars => EditorInv'
  <2>. SUFFICES ASSUME EditorInv, [EditorNext]_editorVars PROVE EditorInv'
    OBVIOUS
  <2>1. CASE UNCHANGED editorVars
    BY <2>1 DEF editorVars, EditorInv, EditorTypeOK, SceneOK, LayersClear, Layers, IdsIn
  <2>2. CASE EditorNext
    BY <2>2, StepLoaded, StepSelected, StepDragged, StepScaled, StepRemoved, StepAdded, StepRatio
      DEF EditorNext
  <2>. QED BY <2>1, <2>2
<1>. QED BY <1>1, <1>2, PTL DEF EditorSpec

\* A layer that was dragged, resized or added under the present ratio is on the canvas and
\* clear of both bands (LayersClear), for any layers, scenes, drags and pinches.
THEOREM TouchedLayersAreClear == EditorSpec => []LayersClear
BY EditorHolds, PTL DEF EditorInv

\* Every variable of the editor keeps its type (EditorTypeOK).
THEOREM EditorTyped == EditorSpec => []EditorTypeOK
BY EditorHolds, PTL DEF EditorInv

-----------------------------------------------------------------------------
(***************************************************************************)
(* Drafts, for any sessions, edits and length of the shelf: what was saved *)
(* last is kept until it is deleted or evicted, and the list shows it.     *)
(*                                                                         *)
(* The invariant follows a save from the timer to the row: scenes are saved *)
(* in the order they are shown, a save waits for the database once, and an *)
(* image that is not whole is still being written or has no row.           *)
(***************************************************************************)

\* How far a save can be.
How == {"none", "encode", "write", "store"}

\* Scenes are saved in the order they are shown, and one at a time where no save
\* overlapped another.
SavesOK ==
  \A s \in Sessions :
    /\ editor[s].timer <= editor[s].scene
    /\ editor[s].pc = "none" => editor[s].scene = 0
    /\ \A v \in InFlight(s) : v <= editor[s].scene /\ (editor[s].timer # 0 => v < editor[s].timer)
    /\ s \notin flawed => InFlight(s) \subseteq {editor[s].fired}

\* The editor of session s has been open.
Begun(s) == editor[s].pc # "none"

\* A save waits for the database once.
JobsOK ==
  /\ \A i \in DOMAIN jobs :
       IF jobs[i].op = "save"
         THEN /\ jobs[i].scene \in ScenesOf(jobs[i].id)
              /\ saving[jobs[i].id][jobs[i].scene] = "store"
         ELSE Begun(jobs[i].id)
  /\ \A i, j \in DOMAIN jobs :
       jobs[i].op = "save" /\ jobs[j].op = "save"
         /\ jobs[i].id = jobs[j].id /\ jobs[i].scene = jobs[j].scene => i = j

\* Only sessions whose editor has been open have drafts, in every list.
ListsOK ==
  /\ \A s \in Ids(shelf) \cup Ids(shown) : Begun(s)
  /\ resuming # NoList => \A s \in Ids(resuming.list) : Begun(s)
  /\ reminding # NoList => \A s \in Ids(reminding) : Begun(s)

BuriedOK ==
  \A s \in buried : editor[s].pc = "closed" /\ InFlight(s) = {} /\ ~OnShelf(s)

\* An image that is not whole is being written, or its row is not there yet.
ImagesOK ==
  \A s \in Sessions \ flawed :
    \/ \E v \in ScenesOf(s) : saving[s][v] = "write"
    \/ image[s] = "whole"
    \/ image[s] = "none" /\ ~OnShelf(s) /\ \A v \in ScenesOf(s) : saving[s][v] # "store"

LatestOK == \A s \in Sessions : LatestIsStored(s)
FeedOK   == shown = shelf \/ feed \/ stale

DraftsInv ==
  /\ DraftsTypeOK /\ SavesOK /\ JobsOK /\ ListsOK
  /\ BuriedOK /\ ImagesOK /\ LatestOK /\ FeedOK

-----------------------------------------------------------------------------
\* The rows a list holds, and that it holds none twice.
Kept(list) == {list[i] : i \in DOMAIN list}
Apart(list) == \A i, j \in DOMAIN list : list[i].id = list[j].id => i = j

\* Deleting a row leaves the others, in order and apart.
LEMMA WithoutIs ==
  ASSUME NEW rows \in Seq(Rows), Apart(rows), NEW s
  PROVE  /\ Without(rows, s) \in Seq(Rows) /\ Apart(Without(rows, s))
         /\ Kept(Without(rows, s)) = {row \in Kept(rows) : row.id # s}
         /\ s \notin Ids(Without(rows, s))
         /\ Len(Without(rows, s)) = IF s \in Ids(rows) THEN Len(rows) - 1 ELSE Len(rows)
<1>1. CASE s \notin Ids(rows)
  <2>1. Without(rows, s) = rows
    BY <1>1 DEF Without
  <2>2. \A row \in Kept(rows) : row.id # s
    BY <1>1 DEF Kept, Ids
  <2>. QED BY <1>1, <2>1, <2>2
<1>2. CASE s \in Ids(rows)
  <2>1. PICK k \in DOMAIN rows : rows[k].id = s /\ Without(rows, s) = RemoveAt(rows, k)
    <3>. DEFINE k == CHOOSE i \in DOMAIN rows : rows[i].id = s
    <3>1. k \in DOMAIN rows /\ rows[k].id = s
      BY <1>2 DEF Ids
    <3>2. Without(rows, s) = RemoveAt(rows, k)
      BY <1>2 DEF Without
    <3>. QED BY <3>1, <3>2
  <2>. DEFINE left == RemoveAt(rows, k)
              At(i) == IF i < k THEN i ELSE i + 1
  <2>2. /\ Len(rows) \in Nat /\ DOMAIN rows = 1..Len(rows) /\ k \in 1..Len(rows)
    BY <2>1
  <2>3. /\ left \in Seq(Rows) /\ Len(left) = Len(rows) - 1
        /\ \A i \in 1..(Len(rows) - 1) : left[i] = rows[At(i)]
    BY <2>2, RemovedIs
  <2>. HIDE DEF left
  <2>4. DOMAIN left = 1..(Len(rows) - 1)
    BY <2>3
  <2>5. \A i \in DOMAIN left : At(i) \in DOMAIN rows /\ At(i) # k
    BY <2>2, <2>4
  <2>6. \A j \in DOMAIN rows \ {k} : \E i \in DOMAIN left : At(i) = j
    <3>. TAKE j \in DOMAIN rows \ {k}
    <3>1. CASE j < k
      BY <3>1, <2>2, <2>4
    <3>2. CASE j > k
      <4>1. j - 1 \in DOMAIN left /\ At(j - 1) = j
        BY <3>2, <2>2, <2>4
      <4>. QED BY <4>1
    <3>. QED BY <3>1, <3>2, <2>2
  <2>7. \A i, j \in DOMAIN left : At(i) = At(j) => i = j
    BY <2>2, <2>4
  <2>. HIDE DEF At
  <2>8. \A j \in DOMAIN rows : rows[j].id = s => j = k
    BY <2>1 DEF Apart
  <2>9. Apart(left)
    BY <2>3, <2>4, <2>5, <2>7 DEF Apart
  <2>10. Kept(left) = {row \in Kept(rows) : row.id # s}
    <3>1. ASSUME NEW i \in DOMAIN left PROVE left[i] \in {row \in Kept(rows) : row.id # s}
      BY <2>3, <2>4, <2>5, <2>8 DEF Kept
    <3>2. ASSUME NEW j \in DOMAIN rows, rows[j].id # s PROVE rows[j] \in Kept(left)
      <4>1. PICK i \in DOMAIN left : At(i) = j
        BY <3>2, <2>1, <2>6
      <4>. QED BY <4>1, <2>3, <2>4 DEF Kept
    <3>. QED BY <3>1, <3>2 DEF Kept
  <2>11. s \notin Ids(left)
    BY <2>3, <2>4, <2>5, <2>8 DEF Ids
  <2>. QED BY <1>2, <2>1, <2>3, <2>9, <2>10, <2>11 DEF left
<1>. QED BY <1>1, <1>2

\* A new row is stored beside the others.
LEMMA AppendedIs ==
  ASSUME NEW rows \in Seq(Rows), Apart(rows), NEW row \in Rows, row.id \notin Ids(rows)
  PROVE  /\ Append(rows, row) \in Seq(Rows) /\ Apart(Append(rows, row))
         /\ Kept(Append(rows, row)) = Kept(rows) \cup {row}
         /\ Len(Append(rows, row)) = Len(rows) + 1
<1>. DEFINE all == Append(rows, row)
<1>1. /\ all \in Seq(Rows) /\ Len(all) = Len(rows) + 1 /\ Len(rows) \in Nat
      /\ DOMAIN rows = 1..Len(rows) /\ DOMAIN all = 1..(Len(rows) + 1)
      /\ all[Len(rows) + 1] = row /\ \A i \in 1..Len(rows) : all[i] = rows[i]
  OBVIOUS
<1>. HIDE DEF all
<1>2. \A i \in DOMAIN rows : rows[i].id # row.id
  BY DEF Ids
<1>3. Apart(all)
  BY <1>1, <1>2 DEF Apart
<1>4. Kept(all) = Kept(rows) \cup {row}
  <2>1. Kept(all) \subseteq Kept(rows) \cup {row}
    BY <1>1 DEF Kept
  <2>2. Kept(rows) \subseteq Kept(all)
    BY <1>1 DEF Kept
  <2>3. row \in Kept(all)
    BY <1>1 DEF Kept
  <2>. QED BY <2>1, <2>2, <2>3
<1>. QED BY <1>1, <1>3, <1>4 DEF all

\* Evicting takes the first row.
LEMMA TailIs ==
  ASSUME NEW rows \in Seq(Rows), Apart(rows), rows # <<>>
  PROVE  /\ Tail(rows) \in Seq(Rows) /\ Apart(Tail(rows))
         /\ Kept(Tail(rows)) = Kept(rows) \ {Head(rows)}
         /\ Len(Tail(rows)) = Len(rows) - 1
         /\ Ids(Tail(rows)) = Ids(rows) \ {Head(rows).id}
<1>1. /\ Tail(rows) \in Seq(Rows) /\ Len(Tail(rows)) = Len(rows) - 1 /\ Len(rows) \in Nat /\ Len(rows) >= 1
      /\ DOMAIN rows = 1..Len(rows) /\ DOMAIN Tail(rows) = 1..(Len(rows) - 1)
      /\ Head(rows) = rows[1]
      /\ \A i \in 1..(Len(rows) - 1) : Tail(rows)[i] = rows[i + 1]
  BY HeadTailProperties
<1>. DEFINE rest == Tail(rows)
<1>. HIDE DEF rest
<1>2. Apart(rest)
  BY <1>1 DEF Apart, rest
<1>3. \A j \in 1..Len(rows) : j # 1 => rows[j].id # rows[1].id
  BY <1>1 DEF Apart
<1>4. ASSUME NEW j \in DOMAIN rows, j # 1 PROVE \E i \in DOMAIN rest : rest[i] = rows[j]
  <2>1. j - 1 \in 1..(Len(rows) - 1) /\ (j - 1) + 1 = j
    BY <1>1, <1>4
  <2>. QED BY <2>1, <1>1 DEF rest
<1>5. ASSUME NEW i \in DOMAIN rest PROVE \E j \in DOMAIN rows : j # 1 /\ rest[i] = rows[j]
  <2>1. i + 1 \in DOMAIN rows /\ i + 1 # 1 /\ rest[i] = rows[i + 1]
    BY <1>1 DEF rest
  <2>. QED BY <2>1
<1>6. Kept(rest) = Kept(rows) \ {Head(rows)}
  BY <1>1, <1>3, <1>4, <1>5 DEF Kept
<1>7. Ids(rest) = Ids(rows) \ {Head(rows).id}
  BY <1>1, <1>3, <1>4, <1>5 DEF Ids
<1>. QED BY <1>1, <1>2, <1>6, <1>7 DEF rest

\* The ids of a list are those of its rows, and an id has one row.
LEMMA RowsAre ==
  ASSUME NEW list
  PROVE  /\ \A row \in Kept(list) : row.id \in Ids(list)
         /\ \A s \in Ids(list) : \E row \in Kept(list) : row.id = s
         /\ Apart(list) => \A a, b \in Kept(list) : a.id = b.id => a = b
BY DEF Kept, Ids, Apart

\* What storing a draft leaves on the shelf: that draft, and of the others all,
\* or when there was no room all but the first.
LEMMA RoomIs ==
  ASSUME DraftsTypeOK, NEW s, NEW v \in Nat, s \in Sessions
  PROVE  LET kept == Append(Without(MakeRoom(s), s), [id |-> s, scene |-> v])
         IN  /\ kept \in Seq(Rows) /\ Len(kept) <= MaxDrafts /\ Apart(kept)
             /\ [id |-> s, scene |-> v] \in Kept(kept)
             /\ \A row \in Kept(kept) : row.id # s => row \in Kept(shelf)
             /\ \A row \in Kept(kept) : row.id = s => row.scene = v
             /\ \/ \A row \in Kept(shelf) : row.id # s => row \in Kept(kept)
                \/ /\ ~OnShelf(s) /\ Len(kept) = MaxDrafts
                   /\ \A row \in Kept(shelf) : row # Head(shelf) => row \in Kept(kept)
<1>. DEFINE room == MakeRoom(s)
            less == Without(room, s)
            row  == [id |-> s, scene |-> v]
            kept == Append(less, row)
<1>1. /\ shelf \in Seq(Rows) /\ Apart(shelf) /\ Len(shelf) \in Nat /\ Len(shelf) <= MaxDrafts
      /\ MaxDrafts \in Nat /\ MaxDrafts >= 1
  BY DraftAssumption DEF DraftsTypeOK, Apart
<1>2. /\ room \in Seq(Rows) /\ Apart(room) /\ Len(room) \in Nat /\ Len(room) <= MaxDrafts
      /\ Kept(room) \subseteq Kept(shelf)
      /\ s \in Ids(room) \/ Len(room) < MaxDrafts
      /\ \/ room = shelf
         \/ /\ ~OnShelf(s) /\ Len(room) = MaxDrafts - 1
            /\ s \notin Ids(room) /\ Kept(room) = Kept(shelf) \ {Head(shelf)}
  <2>1. CASE ~OnShelf(s) /\ Len(shelf) >= MaxDrafts
    <3>1. shelf # <<>> /\ room = Tail(shelf) /\ Len(shelf) = MaxDrafts
      BY <2>1, <1>1 DEF MakeRoom
    <3>2. /\ room \in Seq(Rows) /\ Apart(room) /\ Len(room) = Len(shelf) - 1
          /\ Kept(room) = Kept(shelf) \ {Head(shelf)}
          /\ Ids(room) = Ids(shelf) \ {Head(shelf).id}
      BY <3>1, <1>1, TailIs
    <3>. HIDE DEF room
    <3>3. s \notin Ids(room)
      BY <3>2, <2>1 DEF OnShelf
    <3>. QED BY <2>1, <3>1, <3>2, <3>3, <1>1
  <2>2. CASE OnShelf(s) \/ Len(shelf) < MaxDrafts
    <3>1. room = shelf
      BY <2>2, <1>1 DEF MakeRoom
    <3>. QED BY <3>1, <2>2, <1>1 DEF OnShelf
  <2>. QED BY <2>1, <2>2, <1>1
<1>. HIDE DEF room
<1>3. /\ less \in Seq(Rows) /\ Apart(less) /\ s \notin Ids(less)
      /\ Kept(less) = {r \in Kept(room) : r.id # s}
      /\ Len(less) = IF s \in Ids(room) THEN Len(room) - 1 ELSE Len(room)
  BY <1>2, WithoutIs
<1>. HIDE DEF less
<1>4. row \in Rows /\ row.id = s /\ row.scene = v
  BY DEF Rows
<1>. HIDE DEF row
<1>5. /\ kept \in Seq(Rows) /\ Apart(kept) /\ Kept(kept) = Kept(less) \cup {row}
      /\ Len(kept) = Len(less) + 1
  BY <1>3, <1>4, AppendedIs
<1>. HIDE DEF kept
<1>6. Len(kept) <= MaxDrafts /\ (s \notin Ids(room) /\ Len(room) = MaxDrafts - 1 => Len(kept) = MaxDrafts)
  BY <1>1, <1>2, <1>3, <1>5
<1>7. /\ \A r \in Kept(kept) : r.id # s => r \in Kept(shelf)
      /\ \A r \in Kept(kept) : r.id = s => r.scene = v
  BY <1>2, <1>3, <1>4, <1>5
<1>8. CASE room = shelf
  BY <1>8, <1>3, <1>4, <1>5, <1>6, <1>7 DEF row, kept, less, room
<1>9. CASE /\ ~OnShelf(s) /\ Len(room) = MaxDrafts - 1
           /\ s \notin Ids(room) /\ Kept(room) = Kept(shelf) \ {Head(shelf)}
  <2>1. \A r \in Kept(shelf) : r # Head(shelf) => r \in Kept(kept)
    <3>1. \A r \in Kept(shelf) : r.id # s
      BY <1>9, RowsAre DEF OnShelf
    <3>. QED BY <3>1, <1>9, <1>3, <1>5
  <2>. QED BY <2>1, <1>9, <1>4, <1>5, <1>6, <1>7 DEF row, kept, less, room
<1>. QED BY <1>2, <1>8, <1>9

-----------------------------------------------------------------------------
JobRecs == [op: {"save", "delete"}, id: Sessions, scene: Nat]

EditorRecs(s) == [pc: {"none", "open", "closed"}, scene: 0..Edits[s], timer: 0..Edits[s], fired: 0..Edits[s]]

\* What the types say of the parts of the state.
LEMMA TypesAre ==
  ASSUME DraftsTypeOK
  PROVE  /\ DOMAIN editor = Sessions /\ DOMAIN saving = Sessions
         /\ \A s \in Sessions : /\ editor[s] \in EditorRecs(s)
                                /\ editor[s].pc # "open" => editor[s].timer = 0
                                /\ Edits[s] \in Nat
                                /\ editor[s].scene \in 0..Edits[s]
                                /\ editor[s].timer \in 0..Edits[s]
                                /\ editor[s].fired \in 0..Edits[s]
                                /\ saving[s] \in [ScenesOf(s) -> How]
         /\ jobs \in Seq(JobRecs) /\ \A i \in DOMAIN jobs : jobs[i] \in JobRecs
         /\ Ids(shelf) \subseteq Sessions /\ Ids(shown) \subseteq Sessions
         /\ resuming # NoList => Ids(resuming.list) \subseteq Sessions
         /\ reminding # NoList => Ids(reminding) \subseteq Sessions
<1>1. /\ DOMAIN editor = Sessions /\ DOMAIN saving = Sessions
      /\ \A s \in Sessions : /\ editor[s] \in EditorRecs(s)
                             /\ editor[s].pc # "open" => editor[s].timer = 0
                             /\ saving[s] \in [ScenesOf(s) -> How]
  BY DEF DraftsTypeOK, EditorRecs, How
<1>2. \A s \in Sessions : Edits[s] \in Nat
  BY DraftAssumption
<1>3. jobs \in Seq(JobRecs)
  BY DEF DraftsTypeOK, JobRecs
<1>4. /\ shelf \in Seq(Rows) /\ shown \in Seq(Rows)
      /\ resuming # NoList => resuming.list \in Seq(Rows)
      /\ reminding # NoList => reminding \in Seq(Rows)
  BY DEF DraftsTypeOK
<1>5. ASSUME NEW list \in Seq(Rows) PROVE Ids(list) \subseteq Sessions
  <2>1. \A i \in DOMAIN list : list[i] \in Rows
    BY <1>5
  <2>. QED BY <2>1 DEF Ids, Rows
<1>6. \A i \in DOMAIN jobs : jobs[i] \in JobRecs
  BY <1>3
<1>7. ASSUME NEW s \in Sessions
      PROVE  /\ editor[s].scene \in 0..Edits[s] /\ editor[s].timer \in 0..Edits[s]
             /\ editor[s].fired \in 0..Edits[s]
  BY <1>1 DEF EditorRecs
<1>. QED BY <1>1, <1>2, <1>3, <1>4, <1>5, <1>6, <1>7

\* No editor has been open, and nothing is stored.
LEMMA DraftsInitInv == DraftsInit => DraftsInv
<1>. SUFFICES ASSUME DraftsInit PROVE DraftsInv
  OBVIOUS
<1>. USE DEF DraftsInit
<1>1. \A s \in Sessions : Edits[s] \in Nat
  BY DraftAssumption
<1>2. \A s \in Sessions : editor[s] = NoEditor /\ InFlight(s) = {}
  BY DEF InFlight
<1>3. DraftsTypeOK
  <2>1. \A s \in Sessions :
          /\ editor[s] \in [pc: {"none", "open", "closed"}, scene: 0..Edits[s],
                            timer: 0..Edits[s], fired: 0..Edits[s]]
          /\ editor[s].pc # "open" => editor[s].timer = 0
    BY <1>1, <1>2 DEF NoEditor
  <2>2. \A s \in Sessions : saving[s] \in [ScenesOf(s) -> {"none", "encode", "write", "store"}]
    OBVIOUS
  <2>3. shelf \in Seq(Rows) /\ Len(shelf) <= MaxDrafts
    BY DraftAssumption
  <2>4. jobs \in Seq(JobRecs) /\ shown \in Seq(Rows)
    OBVIOUS
  <2>5. \A i, j \in DOMAIN shelf : shelf[i].id = shelf[j].id => i = j
    OBVIOUS
  <2>6. /\ DOMAIN editor = Sessions /\ DOMAIN saving = Sessions
        /\ image \in [Sessions -> {"none", "torn", "whole"}]
    OBVIOUS
  <2>. QED BY <2>1, <2>2, <2>3, <2>4, <2>5, <2>6 DEF DraftsTypeOK, JobRecs
<1>4. SavesOK
  BY <1>2 DEF SavesOK, NoEditor
<1>5. Ids(shelf) = {} /\ Ids(shown) = {}
  BY DEF Ids
<1>6. JobsOK /\ ListsOK /\ BuriedOK /\ FeedOK
  BY <1>5 DEF JobsOK, ListsOK, BuriedOK, FeedOK
<1>7. ImagesOK
  BY <1>5 DEF ImagesOK, OnShelf
<1>8. LatestOK
  BY <1>2 DEF LatestOK, LatestIsStored, NoEditor
<1>. QED BY <1>3, <1>4, <1>6, <1>7, <1>8 DEF DraftsInv

\* One save goes a step further.
LEMMA SavingIs ==
  ASSUME DraftsTypeOK, NEW s \in Sessions, NEW v \in ScenesOf(s), NEW k \in How,
         saving' = [saving EXCEPT ![s][v] = k]
  PROVE  /\ DOMAIN saving' = Sessions
         /\ \A z \in Sessions : saving'[z] \in [ScenesOf(z) -> How]
         /\ saving'[s][v] = k
         /\ \A z \in Sessions : \A w \in ScenesOf(z) : z # s \/ w # v => saving'[z][w] = saving[z][w]
         /\ \A z \in Sessions : z # s => InFlight(z)' = InFlight(z)
         /\ k = "none" => InFlight(s)' = InFlight(s) \ {v}
         /\ k # "none" => InFlight(s)' = InFlight(s) \cup {v}
<1>. DEFINE mine == [saving[s] EXCEPT ![v] = k]
<1>1. DOMAIN saving = Sessions /\ \A z \in Sessions : saving[z] \in [ScenesOf(z) -> How]
  BY DEF DraftsTypeOK, How
<1>2. saving' = [saving EXCEPT ![s] = mine]
  OBVIOUS
<1>3. /\ mine \in [ScenesOf(s) -> How] /\ mine[v] = k
      /\ \A w \in ScenesOf(s) : w # v => mine[w] = saving[s][w]
  BY <1>1
<1>. HIDE DEF mine
<1>4. DOMAIN saving' = Sessions /\ saving'[s] = mine /\ \A z \in Sessions : z # s => saving'[z] = saving[z]
  BY <1>1, <1>2
<1>5. \A z \in Sessions : z # s => InFlight(z)' = InFlight(z)
  BY <1>4 DEF InFlight
<1>6. InFlight(s)' = IF k = "none" THEN InFlight(s) \ {v} ELSE InFlight(s) \cup {v}
  BY <1>3, <1>4 DEF InFlight
<1>. QED BY <1>1, <1>3, <1>4, <1>5, <1>6

\* The editor is opened, shows another scene or is closed.
LEMMA StepEdits ==
  ASSUME DraftsInv, NEW s \in Sessions, SceneChanged(s) \/ CloseEditor(s)
  PROVE  DraftsInv'
<1>. DEFINE e == editor[s]
            f == editor'[s]
<1>1. /\ e \in EditorRecs(s)
      /\ e.pc # "open" => e.timer = 0
      /\ Edits[s] \in Nat /\ DOMAIN editor = Sessions
      /\ e.scene \in 0..Edits[s] /\ e.timer \in 0..Edits[s] /\ e.fired \in 0..Edits[s]
  BY TypesAre DEF DraftsInv
<1>2. UNCHANGED <<saving, image, shelf, jobs, feed, shown, resuming, reminding, stale, flawed, dropped, buried>>
  BY DEF SceneChanged, CloseEditor, listing
<1>3. /\ DOMAIN editor' = Sessions /\ \A z \in Sessions \ {s} : editor'[z] = editor[z]
      /\ \/ e.pc # "closed" /\ e.scene < Edits[s]
            /\ f = [pc |-> "open", scene |-> e.scene + 1, timer |-> e.scene + 1, fired |-> e.fired]
         \/ e.pc = "open" /\ f = [e EXCEPT !.pc = "closed", !.timer = 0]
  <2>1. CASE SceneChanged(s)
    BY <2>1, <1>1 DEF SceneChanged
  <2>2. CASE CloseEditor(s)
    BY <2>2, <1>1 DEF CloseEditor
  <2>. QED BY <2>1, <2>2
<1>4. /\ f \in EditorRecs(s)
      /\ f.pc # "open" => f.timer = 0
      /\ f.pc # "none" /\ (e.pc = "closed" => f.pc = "closed")
      /\ f.fired = e.fired /\ f.timer <= f.scene /\ e.scene <= f.scene
      /\ f.timer # 0 => e.scene < f.timer
  <2>. HIDE DEF e, f
  <2>1. /\ e.pc \in {"none", "open", "closed"} /\ Edits[s] \in Nat
        /\ e.scene \in 0..Edits[s] /\ e.timer \in 0..Edits[s] /\ e.fired \in 0..Edits[s]
    BY <1>1 DEF EditorRecs
  <2>2. CASE /\ e.pc # "closed" /\ e.scene < Edits[s]
             /\ f = [pc |-> "open", scene |-> e.scene + 1, timer |-> e.scene + 1, fired |-> e.fired]
    <3>1. e.scene + 1 \in 0..Edits[s] /\ e.scene + 1 # 0 /\ e.scene < e.scene + 1
      BY <2>1, <2>2
    <3>. QED BY <2>1, <2>2, <3>1 DEF EditorRecs
  <2>3. CASE e.pc = "open" /\ f = [e EXCEPT !.pc = "closed", !.timer = 0]
    <3>1. f = [pc |-> "closed", scene |-> e.scene, timer |-> 0, fired |-> e.fired]
      BY <1>1, <2>3 DEF EditorRecs
    <3>2. 0 \in 0..Edits[s] /\ 0 <= e.scene
      BY <2>1
    <3>. QED BY <2>1, <2>3, <3>1, <3>2 DEF EditorRecs
  <2>. QED BY <1>3, <2>2, <2>3 DEF e, f
<1>. HIDE DEF e, f
<1>5. \A z \in Sessions : Begun(z) => Begun(z)'
  BY <1>3, <1>4 DEF Begun, e, f
<1>6. \A z \in Sessions : editor'[z].fired = editor[z].fired
  BY <1>3, <1>4 DEF e, f
<1>7. \A z \in Sessions : InFlight(z)' = InFlight(z) /\ InFlight(z) \subseteq ScenesOf(z)
  BY <1>2 DEF InFlight
<1>8. DraftsTypeOK'
  <2>1. \A z \in Sessions : /\ editor'[z] \in EditorRecs(z)
                            /\ editor'[z].pc # "open" => editor'[z].timer = 0
    BY <1>3, <1>4, TypesAre DEF DraftsInv, f
  <2>. QED BY <2>1, <1>2, <1>3 DEF DraftsInv, DraftsTypeOK, EditorRecs
<1>9. SavesOK'
  <2>. SUFFICES ASSUME NEW z \in Sessions
                PROVE  /\ editor'[z].timer <= editor'[z].scene
                       /\ editor'[z].pc = "none" => editor'[z].scene = 0
                       /\ \A v \in InFlight(z) : /\ v <= editor'[z].scene
                                                 /\ editor'[z].timer # 0 => v < editor'[z].timer
                       /\ z \notin flawed => InFlight(z) \subseteq {editor'[z].fired}
    BY <1>2, <1>7 DEF SavesOK
  <2>1. CASE z # s
    BY <2>1, <1>3 DEF DraftsInv, SavesOK
  <2>2. CASE z = s
    <3>1. ASSUME NEW v \in InFlight(z)
          PROVE  v \in Int /\ v <= f.scene /\ (f.timer # 0 => v < f.timer)
      <4>0. v \in ScenesOf(s)
        BY <2>2, <1>7
      <4>1. v \in Int /\ v <= e.scene /\ e.scene \in Int
        BY <4>0, <2>2, <1>1 DEF DraftsInv, SavesOK, e, ScenesOf
      <4>2. f.scene \in Int /\ f.timer \in Int
        BY <1>1, <1>4 DEF EditorRecs
      <4>. QED BY <4>1, <4>2, <1>4
    <3>2. z \notin flawed => InFlight(z) \subseteq {f.fired}
      BY <2>2, <1>4 DEF DraftsInv, SavesOK, e
    <3>. QED BY <2>2, <3>1, <3>2, <1>4 DEF f
  <2>. QED BY <2>1, <2>2
<1>10. JobsOK'
  <2>1. \A i \in DOMAIN jobs : jobs[i].id \in Sessions
    BY TypesAre DEF DraftsInv, JobRecs
  <2>. QED BY <2>1, <1>2, <1>5 DEF DraftsInv, JobsOK
<1>11. ListsOK'
  <2>1. /\ Ids(shelf) \subseteq Sessions /\ Ids(shown) \subseteq Sessions
        /\ resuming # NoList => Ids(resuming.list) \subseteq Sessions
        /\ reminding # NoList => Ids(reminding) \subseteq Sessions
    BY TypesAre DEF DraftsInv
  <2>. QED BY <2>1, <1>2, <1>5 DEF DraftsInv, ListsOK
<1>12. BuriedOK'
  <2>0. \A z \in buried : z \in Sessions /\ editor[z].pc = "closed"
    BY DEF DraftsInv, DraftsTypeOK, BuriedOK
  <2>1. \A z \in buried : z \in Sessions /\ editor'[z].pc = "closed"
    BY <2>0, <1>3, <1>4 DEF e, f
  <2>. QED BY <2>1, <1>2, <1>7 DEF DraftsInv, BuriedOK, OnShelf
<1>13. ImagesOK' /\ FeedOK'
  BY <1>2 DEF DraftsInv, ImagesOK, FeedOK, OnShelf
<1>14. LatestOK'
  BY <1>2, <1>6, <1>7 DEF DraftsInv, LatestOK, LatestIsStored, OnShelf
<1>. QED BY <1>8, <1>9, <1>10, <1>11, <1>12, <1>13, <1>14 DEF DraftsInv

\* The timer fires: the scene it saves is later than any under way.
LEMMA StepTimer ==
  ASSUME DraftsInv, NEW s \in Sessions, TimerFires(s)
  PROVE  DraftsInv'
<1>. DEFINE e == editor[s]
<1>1. /\ e \in EditorRecs(s)
      /\ e.pc # "open" => e.timer = 0
      /\ Edits[s] \in Nat /\ DOMAIN editor = Sessions
      /\ e.scene \in 0..Edits[s] /\ e.timer \in 0..Edits[s] /\ e.fired \in 0..Edits[s]
  BY TypesAre DEF DraftsInv
<1>2. PICK v \in ScenesOf(s) : v = e.timer
  BY <1>1 DEF TimerFires, ScenesOf
<1>3. /\ editor' = [editor EXCEPT ![s].timer = 0, ![s].fired = v]
      /\ saving' = [saving EXCEPT ![s][v] = "encode"]
      /\ flawed' = IF InFlight(s) = {} THEN flawed ELSE flawed \cup {s}
      /\ v # 0 /\ v <= e.scene /\ v \in Int
      /\ UNCHANGED <<image, shelf, jobs, feed, shown, resuming, reminding, stale, dropped, buried>>
  BY <1>1, <1>2 DEF TimerFires, listing, DraftsInv, SavesOK, ScenesOf
<1>4. /\ DOMAIN saving' = Sessions
      /\ \A z \in Sessions : saving'[z] \in [ScenesOf(z) -> How]
      /\ saving'[s][v] = "encode"
      /\ \A z \in Sessions : \A w \in ScenesOf(z) : z # s \/ w # v => saving'[z][w] = saving[z][w]
      /\ \A z \in Sessions : z # s => InFlight(z)' = InFlight(z)
      /\ InFlight(s)' = InFlight(s) \cup {v}
  <2>1. "encode" \in How /\ "encode" # "none" /\ DraftsTypeOK
    BY DEF How, DraftsInv
  <2>2. saving' = [saving EXCEPT ![s][v] = "encode"] /\ v \in ScenesOf(s)
    BY <1>3
  <2>. QED BY ZenonT(40), <2>1, <2>2, SavingIs
<1>5. /\ DOMAIN editor' = Sessions /\ \A z \in Sessions \ {s} : editor'[z] = editor[z]
      /\ editor'[s] = [e EXCEPT !.timer = 0, !.fired = v]
  BY <1>1, <1>3
<1>6. /\ editor'[s] \in EditorRecs(s)
      /\ editor'[s].timer = 0 /\ editor'[s].fired = v
      /\ editor'[s].pc = e.pc /\ editor'[s].scene = e.scene
  <2>1. editor'[s] = [pc |-> e.pc, scene |-> e.scene, timer |-> 0, fired |-> v]
    BY <1>1, <1>5 DEF EditorRecs
  <2>2. 0 \in 0..Edits[s] /\ v \in 0..Edits[s]
    BY <1>1, <1>2 DEF ScenesOf
  <2>. QED BY <1>1, <2>1, <2>2 DEF EditorRecs
<1>7. v \notin InFlight(s) /\ e.pc = "open"
  BY <1>1, <1>2, <1>3 DEF DraftsInv, SavesOK
<1>8. saving[s][v] = "none"
  BY <1>7 DEF InFlight
<1>9. \A z \in Sessions : Begun(z) => Begun(z)'
  BY <1>5, <1>6 DEF Begun
<1>10. DraftsTypeOK'
  <2>1. \A z \in Sessions : /\ editor'[z] \in EditorRecs(z)
                            /\ editor'[z].pc # "open" => editor'[z].timer = 0
    BY <1>1, <1>5, <1>6, TypesAre DEF DraftsInv
  <2>2. flawed' \in SUBSET Sessions
    BY <1>3 DEF DraftsInv, DraftsTypeOK
  <2>. QED BY <2>1, <2>2, <1>3, <1>4, <1>5 DEF DraftsInv, DraftsTypeOK, How, EditorRecs
<1>11. SavesOK'
  <2>. SUFFICES ASSUME NEW z \in Sessions
                PROVE  /\ editor'[z].timer <= editor'[z].scene
                       /\ editor'[z].pc = "none" => editor'[z].scene = 0
                       /\ \A w \in InFlight(z)' : /\ w <= editor'[z].scene
                                                  /\ editor'[z].timer # 0 => w < editor'[z].timer
                       /\ z \notin flawed' => InFlight(z)' \subseteq {editor'[z].fired}
    BY DEF SavesOK
  <2>1. CASE z # s
    BY <2>1, <1>3, <1>4, <1>5 DEF DraftsInv, SavesOK
  <2>2. CASE z = s
    <3>1. \A w \in InFlight(s) : w <= e.scene
      BY DEF DraftsInv, SavesOK
    <3>2. s \notin flawed' => InFlight(s) = {}
      BY <1>3
    <3>3. 0 <= e.scene
      BY <1>1
    <3>4. \A w \in InFlight(s)' : w <= e.scene
      BY <3>1, <1>3, <1>4
    <3>5. s \notin flawed' => InFlight(s)' = {v}
      BY <3>2, <1>4
    <3>6. editor'[s].timer = 0 /\ editor'[s].scene = e.scene /\ editor'[s].pc = "open" /\ editor'[s].fired = v
      BY <1>6, <1>7
    <3>. QED BY <2>2, <3>3, <3>4, <3>5, <3>6
  <2>. QED BY <2>1, <2>2
<1>12. JobsOK'
  <2>1. \A i \in DOMAIN jobs : jobs[i].id \in Sessions
    BY TypesAre DEF DraftsInv, JobRecs
  <2>2. ASSUME NEW i \in DOMAIN jobs, jobs[i].op = "save"
        PROVE  saving'[jobs[i].id][jobs[i].scene] = "store"
    <3>1. jobs[i].scene \in ScenesOf(jobs[i].id) /\ saving[jobs[i].id][jobs[i].scene] = "store"
      BY <2>2 DEF DraftsInv, JobsOK
    <3>2. jobs[i].id # s \/ jobs[i].scene # v
      BY <3>1, <1>8
    <3>. QED BY <3>1, <3>2, <2>1, <1>4
  <2>. QED BY <2>1, <2>2, <1>3, <1>9 DEF DraftsInv, JobsOK
<1>13. ListsOK'
  <2>1. /\ Ids(shelf) \subseteq Sessions /\ Ids(shown) \subseteq Sessions
        /\ resuming # NoList => Ids(resuming.list) \subseteq Sessions
        /\ reminding # NoList => Ids(reminding) \subseteq Sessions
    BY TypesAre DEF DraftsInv
  <2>. QED BY <2>1, <1>3, <1>9 DEF DraftsInv, ListsOK
<1>14. BuriedOK'
  <2>1. s \notin buried
    BY <1>7 DEF DraftsInv, BuriedOK
  <2>. QED BY <2>1, <1>3, <1>4, <1>5 DEF DraftsInv, DraftsTypeOK, BuriedOK, OnShelf
<1>15. ImagesOK'
  <2>. SUFFICES ASSUME NEW z \in Sessions \ flawed'
                PROVE  \/ \E w \in ScenesOf(z) : saving'[z][w] = "write"
                       \/ image[z] = "whole"
                       \/ image[z] = "none" /\ ~OnShelf(z) /\ \A w \in ScenesOf(z) : saving'[z][w] # "store"
    BY <1>3 DEF ImagesOK, OnShelf
  <2>1. z \in Sessions \ flawed
    BY <1>3
  <2>2. \A w \in ScenesOf(z) : saving'[z][w] = saving[z][w] \/ (saving[z][w] = "none" /\ saving'[z][w] = "encode")
    BY <1>4, <1>8
  <2>. QED BY <2>1, <2>2 DEF DraftsInv, ImagesOK
<1>16. LatestOK'
  <2>. SUFFICES ASSUME NEW z \in Sessions PROVE LatestIsStored(z)'
    BY DEF LatestOK
  <2>1. CASE z = s
    BY <2>1, <1>4 DEF LatestIsStored
  <2>2. CASE z # s
    <3>1. z \notin flawed' => z \notin flawed
      BY <1>3
    <3>. QED BY <2>2, <3>1, <1>3, <1>4, <1>5 DEF DraftsInv, LatestOK, LatestIsStored, OnShelf
  <2>. QED BY <2>1, <2>2
<1>17. FeedOK'
  BY <1>3 DEF DraftsInv, FeedOK
<1>. QED BY <1>10, <1>11, <1>12, <1>13, <1>14, <1>15, <1>16, <1>17 DEF DraftsInv

\* A save that is under way is one its session has shown.
LEMMA SaveIs ==
  ASSUME DraftsInv, NEW s \in Sessions, NEW v \in ScenesOf(s), saving[s][v] # "none"
  PROVE  v \in InFlight(s) /\ Begun(s) /\ s \notin buried /\ (s \notin flawed => InFlight(s) = {v})
<1>1. v \in InFlight(s)
  BY DEF InFlight
<1>2. v \in Int /\ v >= 1 /\ v <= editor[s].scene
  BY <1>1 DEF DraftsInv, SavesOK, ScenesOf
<1>3. Begun(s)
  BY <1>2 DEF DraftsInv, SavesOK, Begun
<1>4. s \notin flawed => InFlight(s) = {v}
  BY <1>1 DEF DraftsInv, SavesOK
<1>. QED BY <1>1, <1>3, <1>4 DEF DraftsInv, BuriedOK

\* The image of a save is opened, or written, or fails: where the save goes on, or
\* ends as one that failed, all but the image and the jobs holds.
LEMMA StepSave ==
  ASSUME DraftsInv, NEW s \in Sessions, NEW v \in ScenesOf(s), NEW k \in How,
         saving[s][v] \in {"encode", "write"}, saving' = [saving EXCEPT ![s][v] = k],
         flawed' \in {flawed, flawed \cup {s}}, k = "none" => s \in flawed',
         UNCHANGED <<editor, shelf, feed, listing, dropped, buried>>
  PROVE  /\ SavesOK' /\ ListsOK' /\ BuriedOK' /\ LatestOK' /\ FeedOK'
         /\ \A i \in DOMAIN jobs : jobs[i].op = "save" =>
              /\ jobs[i].id # s \/ jobs[i].scene # v
              /\ saving'[jobs[i].id][jobs[i].scene] = "store"
         /\ image' \in [Sessions -> {"none", "torn", "whole"}] /\ jobs' \in Seq(JobRecs) => DraftsTypeOK'
         /\ \A z \in Sessions : \A w \in ScenesOf(z) : z # s \/ w # v => saving'[z][w] = saving[z][w]
<1>1. /\ DOMAIN saving' = Sessions
      /\ \A z \in Sessions : saving'[z] \in [ScenesOf(z) -> How]
      /\ saving'[s][v] = k
      /\ \A z \in Sessions : \A w \in ScenesOf(z) : z # s \/ w # v => saving'[z][w] = saving[z][w]
      /\ \A z \in Sessions : z # s => InFlight(z)' = InFlight(z)
      /\ k = "none" => InFlight(s)' = InFlight(s) \ {v}
      /\ k # "none" => InFlight(s)' = InFlight(s) \cup {v}
  BY SavingIs DEF DraftsInv
<1>2. /\ v \in InFlight(s) /\ s \notin buried /\ (s \notin flawed => InFlight(s) = {v})
  BY SaveIs
<1>3. /\ UNCHANGED <<editor, shelf, feed, shown, resuming, reminding, stale, dropped, buried>>
      /\ \A z \in Sessions : Begun(z)' = Begun(z)
  BY DEF listing, Begun
<1>4. InFlight(s)' \subseteq InFlight(s) /\ (s \notin flawed' => k # "none" /\ s \notin flawed)
  BY <1>1, <1>2
<1>5. SavesOK'
  <2>. SUFFICES ASSUME NEW z \in Sessions
                PROVE  /\ editor[z].timer <= editor[z].scene
                       /\ editor[z].pc = "none" => editor[z].scene = 0
                       /\ \A w \in InFlight(z)' : /\ w <= editor[z].scene
                                                  /\ editor[z].timer # 0 => w < editor[z].timer
                       /\ z \notin flawed' => InFlight(z)' \subseteq {editor[z].fired}
    BY <1>3 DEF SavesOK
  <2>1. InFlight(z)' \subseteq InFlight(z) /\ (z \notin flawed' => z \notin flawed)
    BY <1>1, <1>4
  <2>. QED BY <2>1 DEF DraftsInv, SavesOK
<1>6. ListsOK'
  BY <1>3, TypesAre DEF DraftsInv, ListsOK
<1>7. BuriedOK'
  <2>1. ASSUME NEW z \in buried
        PROVE  editor[z].pc = "closed" /\ InFlight(z)' = {} /\ ~OnShelf(z)
    <3>1. z \in Sessions /\ z # s /\ editor[z].pc = "closed" /\ InFlight(z) = {} /\ ~OnShelf(z)
      BY <1>2 DEF DraftsInv, DraftsTypeOK, BuriedOK
    <3>. QED BY <3>1, <1>1
  <2>. QED BY <2>1, <1>3 DEF BuriedOK, OnShelf
<1>8. LatestOK'
  <2>. SUFFICES ASSUME NEW z \in Sessions PROVE LatestIsStored(z)'
    BY DEF LatestOK
  <2>1. CASE z = s
    <3>1. k # "none" => InFlight(s)' # {}
      BY <1>1
    <3>2. k = "none" => s \in flawed'
      OBVIOUS
    <3>. QED BY <2>1, <3>1, <3>2 DEF LatestIsStored
  <2>2. CASE z # s
    <3>1. z \notin flawed' => z \notin flawed
      BY <1>4
    <3>. QED BY <2>2, <3>1, <1>1, <1>3 DEF DraftsInv, LatestOK, LatestIsStored, OnShelf
  <2>. QED BY <2>1, <2>2
<1>9. FeedOK'
  BY <1>3 DEF DraftsInv, FeedOK
<1>10. ASSUME NEW i \in DOMAIN jobs, jobs[i].op = "save"
       PROVE  /\ jobs[i].id # s \/ jobs[i].scene # v
              /\ saving'[jobs[i].id][jobs[i].scene] = "store"
  <2>1. /\ jobs[i].scene \in ScenesOf(jobs[i].id) /\ saving[jobs[i].id][jobs[i].scene] = "store"
        /\ jobs[i].id \in Sessions
    BY <1>10, TypesAre DEF DraftsInv, JobsOK, JobRecs
  <2>2. jobs[i].id # s \/ jobs[i].scene # v
    BY <2>1
  <2>. QED BY <2>1, <2>2, <1>1
<1>11. ASSUME image' \in [Sessions -> {"none", "torn", "whole"}], jobs' \in Seq(JobRecs)
       PROVE  DraftsTypeOK'
  <2>1. flawed' \in SUBSET Sessions
    BY DEF DraftsInv, DraftsTypeOK
  <2>. QED BY <2>1, <1>1, <1>3, <1>11 DEF DraftsInv, DraftsTypeOK, How, JobRecs
<1>. QED BY <1>1, <1>5, <1>6, <1>7, <1>8, <1>9, <1>10, <1>11

\* From here on the image is not whole until it is written.
LEMMA StepOpenImage ==
  ASSUME DraftsInv, NEW s \in Sessions, NEW v \in ScenesOf(s), OpenImage(s, v)
  PROVE  DraftsInv'
<1>1. /\ saving[s][v] = "encode" /\ saving' = [saving EXCEPT ![s][v] = "write"]
      /\ image' = [image EXCEPT ![s] = "torn"]
      /\ UNCHANGED <<editor, shelf, jobs, feed, listing, flawed, dropped, buried>>
  BY DEF OpenImage
<1>2. /\ SavesOK' /\ ListsOK' /\ BuriedOK' /\ LatestOK' /\ FeedOK'
      /\ \A i \in DOMAIN jobs : jobs[i].op = "save" =>
           /\ jobs[i].id # s \/ jobs[i].scene # v
           /\ saving'[jobs[i].id][jobs[i].scene] = "store"
      /\ image' \in [Sessions -> {"none", "torn", "whole"}] /\ jobs' \in Seq(JobRecs) => DraftsTypeOK'
      /\ \A z \in Sessions : \A w \in ScenesOf(z) : z # s \/ w # v => saving'[z][w] = saving[z][w]
      /\ saving'[s][v] = "write"
  <2>1. "write" \in How /\ "write" # "none" /\ saving[s][v] \in {"encode", "write"}
    BY <1>1 DEF How
  <2>2. saving' = [saving EXCEPT ![s][v] = "write"] /\ flawed' \in {flawed, flawed \cup {s}}
    BY <1>1
  <2>3. UNCHANGED <<editor, shelf, feed, listing, dropped, buried>>
    BY <1>1
  <2>4. saving'[s][v] = "write"
    BY <2>2, TypesAre DEF DraftsInv
  <2>. QED BY <2>1, <2>2, <2>3, <2>4, StepSave
<1>3. DraftsTypeOK'
  <2>1. image' \in [Sessions -> {"none", "torn", "whole"}]
    BY <1>1 DEF DraftsInv, DraftsTypeOK
  <2>2. jobs' \in Seq(JobRecs)
    BY <1>1, TypesAre DEF DraftsInv
  <2>. QED BY <2>1, <2>2, <1>2
<1>4. JobsOK'
  BY <1>1, <1>2 DEF DraftsInv, JobsOK, Begun
<1>5. ImagesOK'
  <2>1. image \in [Sessions -> {"none", "torn", "whole"}]
    BY DEF DraftsInv, DraftsTypeOK
  <2>2. ASSUME NEW z \in Sessions, z # s
        PROVE image'[z] = image[z] /\ \A w \in ScenesOf(z) : saving'[z][w] = saving[z][w]
    BY <2>1, <2>2, <1>1, <1>2
  <2>. QED BY <2>2, <1>1, <1>2 DEF DraftsInv, ImagesOK, OnShelf
<1>. QED BY <1>2, <1>3, <1>4, <1>5 DEF DraftsInv

\* The image is whole, and the row asks for the database.
LEMMA StepWriteImage ==
  ASSUME DraftsInv, NEW s \in Sessions, NEW v \in ScenesOf(s), WriteImage(s, v)
  PROVE  DraftsInv'
<1>. DEFINE job == [op |-> "save", id |-> s, scene |-> v]
<1>1. /\ saving[s][v] = "write" /\ saving' = [saving EXCEPT ![s][v] = "store"]
      /\ image' = [image EXCEPT ![s] = "whole"] /\ jobs' = Append(jobs, job)
      /\ UNCHANGED <<editor, shelf, feed, listing, flawed, dropped, buried>>
  BY DEF WriteImage
<1>2. /\ SavesOK' /\ ListsOK' /\ BuriedOK' /\ LatestOK' /\ FeedOK'
      /\ \A i \in DOMAIN jobs : jobs[i].op = "save" =>
           /\ jobs[i].id # s \/ jobs[i].scene # v
           /\ saving'[jobs[i].id][jobs[i].scene] = "store"
      /\ image' \in [Sessions -> {"none", "torn", "whole"}] /\ jobs' \in Seq(JobRecs) => DraftsTypeOK'
      /\ \A z \in Sessions : \A w \in ScenesOf(z) : z # s \/ w # v => saving'[z][w] = saving[z][w]
      /\ saving'[s][v] = "store"
  <2>1. "store" \in How /\ "store" # "none" /\ saving[s][v] \in {"encode", "write"}
    BY <1>1 DEF How
  <2>2. saving' = [saving EXCEPT ![s][v] = "store"] /\ flawed' \in {flawed, flawed \cup {s}}
    BY <1>1
  <2>3. UNCHANGED <<editor, shelf, feed, listing, dropped, buried>>
    BY <1>1
  <2>4. saving'[s][v] = "store"
    BY <2>2, TypesAre DEF DraftsInv
  <2>. QED BY <2>1, <2>2, <2>3, <2>4, StepSave
<1>3. job \in JobRecs /\ job.op = "save" /\ job.id = s /\ job.scene = v
  BY DEF JobRecs, ScenesOf
<1>. HIDE DEF job
<1>4. /\ jobs' \in Seq(JobRecs) /\ DOMAIN jobs = 1..Len(jobs) /\ Len(jobs) \in Nat
      /\ DOMAIN jobs' = 1..(Len(jobs) + 1)
      /\ jobs'[Len(jobs) + 1] = job /\ \A i \in 1..Len(jobs) : jobs'[i] = jobs[i]
  <2>1. jobs \in Seq(JobRecs)
    BY TypesAre DEF DraftsInv
  <2>. QED BY <2>1, <1>1, <1>3
<1>5. DraftsTypeOK'
  <2>1. image' \in [Sessions -> {"none", "torn", "whole"}]
    BY <1>1 DEF DraftsInv, DraftsTypeOK
  <2>. QED BY <2>1, <1>2, <1>4
<1>6. JobsOK'
  <2>1. ASSUME NEW i \in DOMAIN jobs'
        PROVE  IF jobs'[i].op = "save"
                 THEN /\ jobs'[i].scene \in ScenesOf(jobs'[i].id)
                      /\ saving'[jobs'[i].id][jobs'[i].scene] = "store"
                 ELSE editor[jobs'[i].id].pc # "none"
    <3>1. CASE i = Len(jobs) + 1
      BY <3>1, <1>2, <1>3, <1>4
    <3>2. CASE i \in DOMAIN jobs
      <4>1. jobs'[i] = jobs[i]
        BY <3>2, <1>4
      <4>2. IF jobs[i].op = "save" THEN jobs[i].scene \in ScenesOf(jobs[i].id) ELSE Begun(jobs[i].id)
        BY <3>2 DEF DraftsInv, JobsOK
      <4>. QED BY <3>2, <4>1, <4>2, <1>2 DEF Begun
    <3>. QED BY <3>1, <3>2, <1>4
  <2>2. ASSUME NEW i \in DOMAIN jobs', NEW j \in DOMAIN jobs',
               jobs'[i].op = "save", jobs'[j].op = "save",
               jobs'[i].id = jobs'[j].id, jobs'[i].scene = jobs'[j].scene
        PROVE  i = j
    <3>1. CASE i \in DOMAIN jobs /\ j \in DOMAIN jobs
      BY <2>2, <3>1, <1>4 DEF DraftsInv, JobsOK
    <3>2. CASE i \in DOMAIN jobs /\ j = Len(jobs) + 1
      BY <2>2, <3>2, <1>2, <1>3, <1>4
    <3>3. CASE i = Len(jobs) + 1 /\ j \in DOMAIN jobs
      BY <2>2, <3>3, <1>2, <1>3, <1>4
    <3>. QED BY <3>1, <3>2, <3>3, <1>4
  <2>. QED BY <2>1, <2>2, <1>1 DEF JobsOK, Begun
<1>7. ImagesOK'
  <2>1. image \in [Sessions -> {"none", "torn", "whole"}]
    BY DEF DraftsInv, DraftsTypeOK
  <2>2. ASSUME NEW z \in Sessions, z # s
        PROVE image'[z] = image[z] /\ \A w \in ScenesOf(z) : saving'[z][w] = saving[z][w]
    BY <2>1, <2>2, <1>1, <1>2
  <2>3. image'[s] = "whole"
    BY <2>1, <1>1
  <2>. QED BY <2>2, <2>3, <1>1 DEF DraftsInv, ImagesOK, OnShelf
<1>. QED BY <1>2, <1>5, <1>6, <1>7 DEF DraftsInv

\* A failed save is one its session has lost.
LEMMA StepImageFails ==
  ASSUME DraftsInv, NEW s \in Sessions, NEW v \in ScenesOf(s), ImageFails(s, v)
  PROVE  DraftsInv'
<1>1. /\ saving[s][v] \in {"encode", "write"} /\ saving' = [saving EXCEPT ![s][v] = "none"]
      /\ flawed' = flawed \cup {s}
      /\ UNCHANGED <<editor, image, shelf, jobs, feed, listing, dropped, buried>>
  BY DEF ImageFails
<1>2. /\ SavesOK' /\ ListsOK' /\ BuriedOK' /\ LatestOK' /\ FeedOK'
      /\ \A i \in DOMAIN jobs : jobs[i].op = "save" => saving'[jobs[i].id][jobs[i].scene] = "store"
      /\ image' \in [Sessions -> {"none", "torn", "whole"}] /\ jobs' \in Seq(JobRecs) => DraftsTypeOK'
      /\ \A z \in Sessions : \A w \in ScenesOf(z) : z # s \/ w # v => saving'[z][w] = saving[z][w]
  <2>1. "none" \in How
    BY DEF How
  <2>2. flawed' \in {flawed, flawed \cup {s}} /\ s \in flawed'
    BY <1>1
  <2>3. UNCHANGED <<editor, shelf, feed, listing, dropped, buried>>
    BY <1>1
  <2>. QED BY <1>1, <2>1, <2>2, <2>3, StepSave
<1>3. DraftsTypeOK'
  <2>1. image' \in [Sessions -> {"none", "torn", "whole"}]
    BY <1>1 DEF DraftsInv, DraftsTypeOK
  <2>2. jobs' \in Seq(JobRecs)
    BY <1>1, TypesAre DEF DraftsInv
  <2>. QED BY <2>1, <2>2, <1>2
<1>4. JobsOK'
  BY <1>1, <1>2 DEF DraftsInv, JobsOK, Begun
<1>5. ImagesOK'
  <2>1. ASSUME NEW z \in Sessions \ flawed'
        PROVE z \in Sessions \ flawed /\ \A w \in ScenesOf(z) : saving'[z][w] = saving[z][w]
    BY <2>1, <1>1, <1>2
  <2>. QED BY <2>1, <1>1 DEF DraftsInv, ImagesOK, OnShelf
<1>. QED BY <1>2, <1>3, <1>4, <1>5 DEF DraftsInv

-----------------------------------------------------------------------------
\* The statement the database takes, and those that stay behind it.
LEMMA JobIs ==
  ASSUME DraftsInv, NEW op, Done(op)
  PROVE  /\ Job \in JobRecs /\ Job.op = op
         /\ 1 \in DOMAIN jobs /\ jobs[1] = Job
         /\ jobs' \in Seq(JobRecs)
         /\ \A i \in DOMAIN jobs' : /\ i \in Nat /\ i + 1 \in DOMAIN jobs /\ i + 1 # 1
                                    /\ jobs'[i] = jobs[i + 1]
<1>1. jobs \in Seq(JobRecs) /\ jobs # <<>> /\ jobs' = Tail(jobs) /\ Job.op = op
  BY TypesAre DEF DraftsInv, Done
<1>2. /\ Head(jobs) \in JobRecs /\ Tail(jobs) \in Seq(JobRecs)
      /\ Len(Tail(jobs)) = Len(jobs) - 1
      /\ \A i \in 1..Len(Tail(jobs)) : Tail(jobs)[i] = jobs[i + 1]
  BY <1>1, HeadTailProperties
<1>3. Len(jobs) \in Nat /\ Len(jobs) >= 1 /\ DOMAIN jobs = 1..Len(jobs) /\ Head(jobs) = jobs[1]
  BY <1>1
<1>4. DOMAIN Tail(jobs) = 1..(Len(jobs) - 1)
  BY <1>1, <1>2, <1>3
<1>5. ASSUME NEW i \in DOMAIN Tail(jobs)
      PROVE  i \in Nat /\ i + 1 \in DOMAIN jobs /\ i + 1 # 1 /\ Tail(jobs)[i] = jobs[i + 1]
  BY <1>2, <1>3, <1>4
<1>. QED BY <1>1, <1>2, <1>3, <1>5 DEF Job

\* A save ends, whether its row is stored or not.
LEMMA SaveEnds ==
  ASSUME DraftsInv, Done("save"), NEW s, NEW v, s = Job.id, v = Job.scene,
         saving' = [saving EXCEPT ![s][v] = "none"], UNCHANGED editor
  PROVE  /\ s \in Sessions /\ v \in ScenesOf(s) /\ v \in Nat /\ saving[s][v] = "store" /\ JobsOK'
         /\ DOMAIN saving' = Sessions /\ \A z \in Sessions : saving'[z] \in [ScenesOf(z) -> How]
         /\ \A z \in Sessions : \A w \in ScenesOf(z) : z # s \/ w # v => saving'[z][w] = saving[z][w]
         /\ \A z \in Sessions : z # s => InFlight(z)' = InFlight(z)
         /\ InFlight(s)' = InFlight(s) \ {v}
<1>1. /\ Job \in JobRecs /\ Job.op = "save" /\ 1 \in DOMAIN jobs /\ jobs[1] = Job
      /\ \A i \in DOMAIN jobs' : /\ i \in Nat /\ i + 1 \in DOMAIN jobs /\ i + 1 # 1
                                 /\ jobs'[i] = jobs[i + 1]
  BY JobIs
<1>2. s \in Sessions /\ v \in Nat
  BY <1>1 DEF JobRecs
<1>3. v \in ScenesOf(s) /\ saving[s][v] = "store"
  BY <1>1 DEF DraftsInv, JobsOK
<1>4. /\ DOMAIN saving' = Sessions /\ \A z \in Sessions : saving'[z] \in [ScenesOf(z) -> How]
      /\ \A z \in Sessions : \A w \in ScenesOf(z) : z # s \/ w # v => saving'[z][w] = saving[z][w]
      /\ \A z \in Sessions : z # s => InFlight(z)' = InFlight(z)
      /\ InFlight(s)' = InFlight(s) \ {v}
  <2>1. "none" \in How /\ DraftsTypeOK
    BY DEF How, DraftsInv
  <2>2. saving' = [saving EXCEPT ![s][v] = "none"]
    OBVIOUS
  <2>. QED BY ONLY ZenonT(40), <2>1, <2>2, <1>2, <1>3, SavingIs
<1>5. JobsOK'
  <2>1. ASSUME NEW i \in DOMAIN jobs'
        PROVE  IF jobs'[i].op = "save"
                 THEN /\ jobs'[i].scene \in ScenesOf(jobs'[i].id)
                      /\ saving'[jobs'[i].id][jobs'[i].scene] = "store"
                 ELSE editor[jobs'[i].id].pc # "none"
    <3>1. i + 1 \in DOMAIN jobs /\ i + 1 # 1 /\ jobs'[i] = jobs[i + 1]
      BY <1>1
    <3>2. jobs[i + 1].id \in Sessions
      BY <3>1, TypesAre DEF DraftsInv, JobRecs
    <3>3. CASE jobs[i + 1].op = "save"
      <4>1. /\ jobs[i + 1].scene \in ScenesOf(jobs[i + 1].id)
            /\ saving[jobs[i + 1].id][jobs[i + 1].scene] = "store"
            /\ jobs[i + 1].id # s \/ jobs[i + 1].scene # v
        BY <3>1, <3>3, <1>1 DEF DraftsInv, JobsOK
      <4>. QED BY <4>1, <3>1, <3>2, <3>3, <1>4
    <3>4. CASE jobs[i + 1].op # "save"
      BY <3>1, <3>4 DEF DraftsInv, JobsOK, Begun
    <3>. QED BY <3>3, <3>4
  <2>2. ASSUME NEW i \in DOMAIN jobs', NEW j \in DOMAIN jobs',
               jobs'[i].op = "save", jobs'[j].op = "save",
               jobs'[i].id = jobs'[j].id, jobs'[i].scene = jobs'[j].scene
        PROVE  i = j
    <3>1. i + 1 = j + 1
      BY <2>2, <1>1 DEF DraftsInv, JobsOK
    <3>. QED BY <3>1, <1>1
  <2>. QED BY <2>1, <2>2 DEF JobsOK, Begun
<1>. QED BY <1>2, <1>3, <1>4, <1>5

\* The scenes that are shown, saved and under way, when a save has ended.
LEMMA SavesStayOK ==
  ASSUME DraftsInv, UNCHANGED editor, flawed \subseteq flawed',
         \A z \in Sessions : InFlight(z)' \subseteq InFlight(z)
  PROVE  SavesOK'
BY DEF DraftsInv, SavesOK

\* A row is stored: that of its session, with the last scene that was saved unless saves overlapped.
LEMMA StepSaveCommits == DraftsInv /\ SaveCommits => DraftsInv'
<1>. SUFFICES ASSUME DraftsInv, SaveCommits PROVE DraftsInv'
  OBVIOUS
<1>1. PICK s, v : s = Job.id /\ v = Job.scene
  OBVIOUS
<1>. DEFINE row == [id |-> s, scene |-> v]
<1>2. /\ Done("save") /\ saving' = [saving EXCEPT ![s][v] = "none"]
      /\ shelf' = Append(Without(MakeRoom(s), s), row)
      /\ dropped' = (dropped \cup (Ids(shelf) \ Ids(shelf'))) \ {s}
      /\ feed' = TRUE
      /\ UNCHANGED <<editor, image, shown, resuming, reminding, stale, flawed, buried>>
  BY <1>1 DEF SaveCommits, listing
<1>3. /\ s \in Sessions /\ v \in ScenesOf(s) /\ v \in Nat /\ saving[s][v] = "store" /\ JobsOK'
      /\ DOMAIN saving' = Sessions /\ \A z \in Sessions : saving'[z] \in [ScenesOf(z) -> How]
      /\ \A z \in Sessions : \A w \in ScenesOf(z) : z # s \/ w # v => saving'[z][w] = saving[z][w]
      /\ \A z \in Sessions : z # s => InFlight(z)' = InFlight(z)
      /\ InFlight(s)' = InFlight(s) \ {v}
  BY ZenonT(40), <1>1, <1>2, SaveEnds
<1>4. v \in InFlight(s) /\ Begun(s) /\ s \notin buried /\ (s \notin flawed => InFlight(s) = {v})
  BY <1>3, SaveIs
<1>5. /\ shelf' \in Seq(Rows) /\ Len(shelf') <= MaxDrafts /\ Apart(shelf')
      /\ row \in Kept(shelf')
      /\ \A r \in Kept(shelf') : r.id # s => r \in Kept(shelf)
      /\ \A r \in Kept(shelf') : r.id = s => r.scene = v
  <2>. HIDE DEF row
  <2>1. DraftsTypeOK
    BY DEF DraftsInv
  <2>. QED BY <2>1, <1>2, <1>3, RoomIs DEF row
<1>6. \A z \in Ids(shelf') : z = s \/ z \in Ids(shelf)
  BY <1>5, RowsAre
<1>7. DraftsTypeOK'
  <2>1. jobs' \in Seq(JobRecs)
    BY <1>2, JobIs
  <2>2. \A i, j \in DOMAIN shelf' : shelf'[i].id = shelf'[j].id => i = j
    BY <1>5 DEF Apart
  <2>3. dropped' \in SUBSET Sessions
    BY <1>2, TypesAre DEF DraftsInv, DraftsTypeOK
  <2>. QED BY <2>1, <2>2, <2>3, <1>2, <1>3, <1>5 DEF DraftsInv, DraftsTypeOK, How, JobRecs
<1>8. SavesOK'
  BY <1>2, <1>3, SavesStayOK
<1>9. ListsOK'
  BY <1>2, <1>4, <1>6 DEF DraftsInv, ListsOK, Begun
<1>10. BuriedOK'
  <2>1. ASSUME NEW z \in buried
        PROVE  editor[z].pc = "closed" /\ InFlight(z)' = {} /\ z \notin Ids(shelf')
    <3>1. z \in Sessions /\ z # s /\ editor[z].pc = "closed" /\ InFlight(z) = {} /\ z \notin Ids(shelf)
      BY <1>4 DEF DraftsInv, DraftsTypeOK, BuriedOK, OnShelf
    <3>. QED BY <3>1, <1>3, <1>6
  <2>. QED BY <2>1, <1>2 DEF BuriedOK, OnShelf
<1>11. ImagesOK'
  <2>. SUFFICES ASSUME NEW z \in Sessions \ flawed
                PROVE  \/ \E w \in ScenesOf(z) : saving'[z][w] = "write"
                       \/ image[z] = "whole"
                       \/ image[z] = "none" /\ z \notin Ids(shelf') /\ \A w \in ScenesOf(z) : saving'[z][w] # "store"
    BY <1>2 DEF ImagesOK, OnShelf
  <2>1. CASE z = s
    <3>1. \A w \in ScenesOf(s) : saving[s][w] # "write"
      BY <2>1, <1>3, <1>4 DEF InFlight
    <3>2. image[s] = "whole"
      BY <2>1, <3>1, <1>3 DEF DraftsInv, ImagesOK
    <3>. QED BY <2>1, <3>2
  <2>2. CASE z # s
    <3>1. \A w \in ScenesOf(z) : saving'[z][w] = saving[z][w]
      BY <2>2, <1>3
    <3>2. z \notin Ids(shelf) => z \notin Ids(shelf')
      BY <2>2, <1>6
    <3>. QED BY <3>1, <3>2 DEF DraftsInv, ImagesOK, OnShelf
  <2>. QED BY <2>1, <2>2
<1>12. LatestOK'
  <2>. SUFFICES ASSUME NEW z \in Sessions PROVE LatestIsStored(z)'
    BY DEF LatestOK
  <2>. SUFFICES ASSUME editor[z].fired # 0, InFlight(z)' = {}, z \notin flawed
                PROVE  \/ z \in dropped' /\ z \notin Ids(shelf')
                       \/ [id |-> z, scene |-> editor[z].fired] \in Kept(shelf')
    BY <1>2 DEF LatestIsStored, OnShelf, Kept
  <2>1. CASE z = s
    <3>1. editor[s].fired = v
      BY <2>1, <1>4 DEF DraftsInv, SavesOK
    <3>. QED BY <2>1, <3>1, <1>5
  <2>2. CASE z # s
    <3>1. InFlight(z) = {}
      BY <2>2, <1>3
    <3>2. CASE z \in dropped /\ ~OnShelf(z)
      BY <3>2, <2>2, <1>2, <1>6 DEF OnShelf
    <3>3. CASE \E i \in DOMAIN shelf : shelf[i] = [id |-> z, scene |-> editor[z].fired]
      <4>. DEFINE last == [id |-> z, scene |-> editor[z].fired]
      <4>1. last \in Kept(shelf) /\ last.id = z /\ z \in Ids(shelf)
        BY <3>3 DEF Kept, Ids
      <4>2. CASE z \notin Ids(shelf')
        BY <4>1, <4>2, <2>2, <1>2
      <4>3. CASE z \in Ids(shelf')
        <5>1. PICK r \in Kept(shelf') : r.id = z
          BY <4>3, RowsAre
        <5>2. r \in Kept(shelf)
          BY <5>1, <2>2, <1>5
        <5>3. Apart(shelf)
          BY DEF DraftsInv, DraftsTypeOK, Apart
        <5>4. r = last
          BY <4>1, <5>1, <5>2, <5>3, RowsAre
        <5>. QED BY <5>1, <5>4
      <4>. QED BY <4>2, <4>3
    <3>. QED BY <3>1, <3>2, <3>3 DEF DraftsInv, LatestOK, LatestIsStored
  <2>. QED BY <2>1, <2>2
<1>13. FeedOK'
  BY <1>2 DEF FeedOK
<1>. QED BY <1>3, <1>7, <1>8, <1>9, <1>10, <1>11, <1>12, <1>13 DEF DraftsInv

\* Whatever the database did with a deletion, the jobs left are as before.
LEMMA DeleteEnds ==
  ASSUME DraftsInv, Done("delete"), UNCHANGED <<editor, saving>>
  PROVE  /\ JobsOK' /\ Job.id \in Sessions /\ Begun(Job.id) /\ jobs' \in Seq(JobRecs)
<1>1. /\ Job \in JobRecs /\ Job.op = "delete" /\ 1 \in DOMAIN jobs /\ jobs[1] = Job
      /\ jobs' \in Seq(JobRecs)
      /\ \A i \in DOMAIN jobs' : /\ i \in Nat /\ i + 1 \in DOMAIN jobs /\ i + 1 # 1
                                 /\ jobs'[i] = jobs[i + 1]
  BY JobIs
<1>2. Begun(Job.id)
  BY <1>1 DEF DraftsInv, JobsOK
<1>3. ASSUME NEW i \in DOMAIN jobs'
      PROVE  IF jobs'[i].op = "save"
               THEN /\ jobs'[i].scene \in ScenesOf(jobs'[i].id)
                    /\ saving[jobs'[i].id][jobs'[i].scene] = "store"
               ELSE editor[jobs'[i].id].pc # "none"
  BY <1>1 DEF DraftsInv, JobsOK, Begun
<1>4. ASSUME NEW i \in DOMAIN jobs', NEW j \in DOMAIN jobs',
             jobs'[i].op = "save", jobs'[j].op = "save",
             jobs'[i].id = jobs'[j].id, jobs'[i].scene = jobs'[j].scene
      PROVE  i = j
  <2>1. i + 1 = j + 1
    BY <1>4, <1>1 DEF DraftsInv, JobsOK
  <2>. QED BY <2>1, <1>1
<1>5. JobsOK'
  BY <1>3, <1>4 DEF JobsOK, Begun
<1>. QED BY <1>1, <1>2, <1>5 DEF JobRecs

\* A row is deleted, and no list gains one.
LEMMA StepDeleteCommits == DraftsInv /\ DeleteCommits => DraftsInv'
<1>. SUFFICES ASSUME DraftsInv, DeleteCommits PROVE DraftsInv'
  OBVIOUS
<1>1. PICK s : s = Job.id
  OBVIOUS
<1>2. /\ Done("delete") /\ shelf' = Without(shelf, s) /\ dropped' = dropped \cup {s}
      /\ buried' = IF editor[s].pc # "open" /\ InFlight(s) = {} THEN buried \cup {s} ELSE buried
      /\ feed' = (feed \/ OnShelf(s))
      /\ UNCHANGED <<editor, saving, image, shown, resuming, reminding, stale, flawed>>
  BY <1>1 DEF DeleteCommits, listing, editing
<1>3. JobsOK' /\ s \in Sessions /\ Begun(s) /\ jobs' \in Seq(JobRecs)
  BY <1>1, <1>2, DeleteEnds
<1>4. shelf \in Seq(Rows) /\ Apart(shelf) /\ Len(shelf) \in Nat /\ Len(shelf) <= MaxDrafts
  BY DEF DraftsInv, DraftsTypeOK, Apart
<1>5. /\ shelf' \in Seq(Rows) /\ Apart(shelf')
      /\ Kept(shelf') = {row \in Kept(shelf) : row.id # s}
      /\ s \notin Ids(shelf')
      /\ Len(shelf') = IF s \in Ids(shelf) THEN Len(shelf) - 1 ELSE Len(shelf)
  BY <1>2, <1>4, WithoutIs
<1>6. Ids(shelf') \subseteq Ids(shelf) /\ \A z \in Sessions : InFlight(z)' = InFlight(z)
  BY <1>2, <1>5, RowsAre DEF InFlight
<1>7. DraftsTypeOK'
  <2>1. Len(shelf') <= MaxDrafts /\ feed' \in BOOLEAN
    BY <1>2, <1>4, <1>5, DraftAssumption DEF DraftsInv, DraftsTypeOK, OnShelf
  <2>2. \A i, j \in DOMAIN shelf' : shelf'[i].id = shelf'[j].id => i = j
    BY <1>5 DEF Apart
  <2>3. dropped' \in SUBSET Sessions /\ buried' \in SUBSET Sessions
    BY <1>2, <1>3 DEF DraftsInv, DraftsTypeOK
  <2>. QED BY <2>1, <2>2, <2>3, <1>2, <1>3, <1>5 DEF DraftsInv, DraftsTypeOK, JobRecs
<1>8. SavesOK'
  BY <1>2, <1>6, SavesStayOK
<1>9. ListsOK'
  BY <1>2, <1>6 DEF DraftsInv, ListsOK, Begun
<1>10. BuriedOK'
  <2>1. editor[s].pc # "open" => editor[s].pc = "closed"
    BY <1>3, TypesAre DEF DraftsInv, Begun, EditorRecs
  <2>2. \A z \in buried' : z \in Sessions /\ editor[z].pc = "closed" /\ InFlight(z) = {} /\ z \notin Ids(shelf')
    BY <2>1, <1>2, <1>3, <1>5, <1>6 DEF DraftsInv, DraftsTypeOK, BuriedOK, OnShelf
  <2>. QED BY <2>2, <1>2, <1>6 DEF BuriedOK, OnShelf
<1>11. ImagesOK'
  BY <1>2, <1>6 DEF DraftsInv, ImagesOK, OnShelf
<1>12. LatestOK'
  <2>. SUFFICES ASSUME NEW z \in Sessions, editor[z].fired # 0, InFlight(z) = {}, z \notin flawed
                PROVE  \/ z \in dropped' /\ z \notin Ids(shelf')
                       \/ [id |-> z, scene |-> editor[z].fired] \in Kept(shelf')
    BY <1>2, <1>6 DEF LatestOK, LatestIsStored, OnShelf, Kept
  <2>1. CASE z = s
    BY <2>1, <1>2, <1>5
  <2>2. CASE z # s
    <3>1. CASE z \in dropped /\ ~OnShelf(z)
      BY <3>1, <1>2, <1>6 DEF OnShelf
    <3>2. CASE \E i \in DOMAIN shelf : shelf[i] = [id |-> z, scene |-> editor[z].fired]
      <4>1. [id |-> z, scene |-> editor[z].fired] \in Kept(shelf)
        BY <3>2 DEF Kept
      <4>. QED BY <4>1, <2>2, <1>5
    <3>. QED BY <3>1, <3>2 DEF DraftsInv, LatestOK, LatestIsStored
  <2>. QED BY <2>1, <2>2
<1>13. FeedOK'
  <2>1. ~OnShelf(s) => shelf' = shelf
    BY <1>2 DEF Without, OnShelf
  <2>. QED BY <2>1, <1>2 DEF DraftsInv, FeedOK
<1>. QED BY <1>3, <1>7, <1>8, <1>9, <1>10, <1>11, <1>12, <1>13 DEF DraftsInv

\* The database refuses a statement.
LEMMA StepJobFails == DraftsInv /\ JobFails => DraftsInv'
<1>. SUFFICES ASSUME DraftsInv, JobFails PROVE DraftsInv'
  OBVIOUS
<1>1. UNCHANGED <<editor, image, shelf, feed, shown, resuming, reminding, stale, dropped, buried>>
  BY DEF JobFails, listing
<1>2. /\ JobsOK' /\ jobs' \in Seq(JobRecs) /\ flawed \subseteq flawed' /\ flawed' \in SUBSET Sessions
      /\ DOMAIN saving' = Sessions /\ \A z \in Sessions : saving'[z] \in [ScenesOf(z) -> How]
      /\ \A z \in Sessions : InFlight(z)' \subseteq InFlight(z)
      /\ \A z \in Sessions \ flawed' : /\ InFlight(z)' = InFlight(z)
                                       /\ \A w \in ScenesOf(z) : saving'[z][w] = saving[z][w]
  <2>0. flawed \in SUBSET Sessions
    BY DEF DraftsInv, DraftsTypeOK
  <2>1. CASE /\ Done("save") /\ saving' = [saving EXCEPT ![Job.id][Job.scene] = "none"]
             /\ flawed' = flawed \cup {Job.id}
    <3>1. PICK s, v : s = Job.id /\ v = Job.scene
      OBVIOUS
    <3>2. Done("save") /\ saving' = [saving EXCEPT ![s][v] = "none"] /\ flawed' = flawed \cup {s}
      BY <2>1, <3>1
    <3>3. /\ s \in Sessions /\ v \in ScenesOf(s) /\ JobsOK'
          /\ DOMAIN saving' = Sessions /\ \A z \in Sessions : saving'[z] \in [ScenesOf(z) -> How]
          /\ \A z \in Sessions : \A w \in ScenesOf(z) : z # s \/ w # v => saving'[z][w] = saving[z][w]
          /\ \A z \in Sessions : z # s => InFlight(z)' = InFlight(z)
          /\ InFlight(s)' = InFlight(s) \ {v}
      BY ZenonT(40), <3>1, <3>2, <1>1, SaveEnds
    <3>4. jobs' \in Seq(JobRecs)
      BY <3>2, JobIs
    <3>5. \A z \in Sessions : InFlight(z)' \subseteq InFlight(z)
      BY <3>3
    <3>. QED BY <2>0, <3>2, <3>3, <3>4, <3>5
  <2>2. CASE Done("delete") /\ UNCHANGED <<saving, flawed>>
    <3>1. JobsOK' /\ jobs' \in Seq(JobRecs)
      BY <2>2, <1>1, DeleteEnds
    <3>2. \A z \in Sessions : InFlight(z)' = InFlight(z)
      BY <2>2 DEF InFlight
    <3>. QED BY <2>0, <2>2, <3>1, <3>2, TypesAre DEF DraftsInv
  <2>. QED BY <2>1, <2>2 DEF JobFails
<1>3. DraftsTypeOK'
  BY <1>1, <1>2 DEF DraftsInv, DraftsTypeOK, How, JobRecs
<1>4. SavesOK'
  BY <1>1, <1>2, SavesStayOK
<1>5. ListsOK' /\ FeedOK'
  BY <1>1 DEF DraftsInv, ListsOK, FeedOK, Begun
<1>6. BuriedOK'
  <2>1. \A z \in buried : z \in Sessions /\ editor[z].pc = "closed" /\ InFlight(z) = {} /\ z \notin Ids(shelf)
    BY DEF DraftsInv, DraftsTypeOK, BuriedOK, OnShelf
  <2>2. \A z \in buried : InFlight(z)' = {}
    BY <2>1, <1>2
  <2>. QED BY <2>1, <2>2, <1>1 DEF BuriedOK, OnShelf
<1>7. ImagesOK'
  BY <1>1, <1>2 DEF DraftsInv, ImagesOK, OnShelf
<1>8. LatestOK'
  <2>. SUFFICES ASSUME NEW z \in Sessions, z \notin flawed' PROVE LatestIsStored(z)'
    BY DEF LatestOK, LatestIsStored
  <2>1. InFlight(z)' = InFlight(z) /\ z \notin flawed
    BY <1>2
  <2>. QED BY <2>1, <1>1 DEF DraftsInv, LatestOK, LatestIsStored, OnShelf
<1>. QED BY <1>2, <1>3, <1>4, <1>5, <1>6, <1>7, <1>8 DEF DraftsInv

-----------------------------------------------------------------------------
\* Where no save and no row is touched, the lists have to be looked at alone.
LEMMA QuietIs ==
  ASSUME DraftsInv, UNCHANGED <<editing, shelf, jobs, flawed, dropped, buried>>
  PROVE  SavesOK' /\ JobsOK' /\ BuriedOK' /\ ImagesOK' /\ LatestOK'
<1>1. UNCHANGED <<editor, saving, image, shelf, jobs, flawed, dropped, buried>>
  BY DEF editing
<1>2. \A z : InFlight(z)' = InFlight(z)
  BY <1>1 DEF InFlight
<1>3. \A z \in Sessions : LatestIsStored(z)' = LatestIsStored(z)
  BY <1>1, <1>2 DEF LatestIsStored, OnShelf
<1>4. SavesOK'
  BY <1>1, <1>2 DEF DraftsInv, SavesOK
<1>5. JobsOK' /\ BuriedOK'
  BY <1>1, <1>2 DEF DraftsInv, JobsOK, BuriedOK, Begun, OnShelf
<1>6. ImagesOK'
  BY <1>1 DEF DraftsInv, ImagesOK, OnShelf
<1>. QED BY <1>3, <1>4, <1>5, <1>6 DEF DraftsInv, LatestOK

\* The list shows what is stored.
LEMMA StepListUpdated == DraftsInv /\ ListUpdated => DraftsInv'
<1>. SUFFICES ASSUME DraftsInv, ListUpdated PROVE DraftsInv'
  OBVIOUS
<1>1. /\ feed' = FALSE /\ shown' = shelf /\ stale' = FALSE
      /\ UNCHANGED <<editing, shelf, jobs, resuming, reminding, flawed, dropped, buried>>
  BY DEF ListUpdated
<1>2. SavesOK' /\ JobsOK' /\ BuriedOK' /\ ImagesOK' /\ LatestOK'
  BY <1>1, QuietIs
<1>3. DraftsTypeOK'
  BY <1>1 DEF DraftsInv, DraftsTypeOK, editing
<1>4. ListsOK' /\ FeedOK'
  BY <1>1 DEF DraftsInv, ListsOK, FeedOK, Begun, editing
<1>. QED BY <1>2, <1>3, <1>4 DEF DraftsInv

\* Only what is shown, and so was stored once, is deleted.
LEMMA StepDeleteRequested ==
  ASSUME DraftsInv, NEW s \in Sessions, DeleteRequested(s)
  PROVE  DraftsInv'
<1>. DEFINE job == [op |-> "delete", id |-> s, scene |-> 0]
<1>1. /\ s \in Ids(shown) /\ jobs' = Append(jobs, job)
      /\ UNCHANGED <<editor, saving, image, shelf, feed, shown, resuming, reminding, stale,
                     flawed, dropped, buried>>
  BY DEF DeleteRequested, editing, listing
<1>2. job \in JobRecs /\ job.op # "save" /\ job.id = s
  BY DEF JobRecs
<1>. HIDE DEF job
<1>3. /\ jobs' \in Seq(JobRecs) /\ DOMAIN jobs = 1..Len(jobs) /\ Len(jobs) \in Nat
      /\ DOMAIN jobs' = 1..(Len(jobs) + 1)
      /\ jobs'[Len(jobs) + 1] = job /\ \A i \in 1..Len(jobs) : jobs'[i] = jobs[i]
  <2>1. jobs \in Seq(JobRecs)
    BY TypesAre DEF DraftsInv
  <2>. QED BY <2>1, <1>1, <1>2
<1>4. DraftsTypeOK'
  BY <1>1, <1>3 DEF DraftsInv, DraftsTypeOK, JobRecs
<1>5. JobsOK'
  <2>1. ASSUME NEW i \in DOMAIN jobs'
        PROVE  IF jobs'[i].op = "save"
                 THEN /\ jobs'[i].scene \in ScenesOf(jobs'[i].id)
                      /\ saving[jobs'[i].id][jobs'[i].scene] = "store"
                 ELSE editor[jobs'[i].id].pc # "none"
    <3>1. CASE i = Len(jobs) + 1
      <4>1. Begun(s)
        BY <1>1 DEF DraftsInv, ListsOK
      <4>. QED BY <3>1, <4>1, <1>2, <1>3 DEF Begun
    <3>2. CASE i \in DOMAIN jobs
      BY <3>2, <1>3 DEF DraftsInv, JobsOK, Begun
    <3>. QED BY <3>1, <3>2, <1>3
  <2>2. ASSUME NEW i \in DOMAIN jobs', NEW j \in DOMAIN jobs',
               jobs'[i].op = "save", jobs'[j].op = "save",
               jobs'[i].id = jobs'[j].id, jobs'[i].scene = jobs'[j].scene
        PROVE  i = j
    <3>1. i \in DOMAIN jobs /\ j \in DOMAIN jobs
      BY <2>2, <1>2, <1>3
    <3>. QED BY <2>2, <3>1, <1>3 DEF DraftsInv, JobsOK
  <2>. QED BY <2>1, <2>2, <1>1 DEF JobsOK, Begun
<1>6. \A z : InFlight(z)' = InFlight(z)
  BY <1>1 DEF InFlight
<1>7. \A z \in Sessions : LatestIsStored(z)' = LatestIsStored(z)
  BY <1>1, <1>6 DEF LatestIsStored, OnShelf
<1>8. SavesOK' /\ BuriedOK' /\ ListsOK' /\ FeedOK'
  BY <1>1, <1>6 DEF DraftsInv, SavesOK, BuriedOK, ListsOK, FeedOK, Begun, OnShelf
<1>9. ImagesOK'
  BY <1>1 DEF DraftsInv, ImagesOK, OnShelf
<1>. QED BY <1>4, <1>5, <1>7, <1>8, <1>9 DEF DraftsInv, LatestOK

\* A handler remembers the list as it is shown.
LEMMA StepRequested ==
  ASSUME DraftsInv, NEW s \in Sessions, ResumeRequested(s) \/ ReminderRequested(s)
  PROVE  DraftsInv'
<1>1. /\ UNCHANGED <<editing, shelf, jobs, feed, shown, stale, flawed, dropped, buried>>
      /\ \/ resuming' = [list |-> shown, id |-> s] /\ UNCHANGED reminding
         \/ reminding' = shown /\ UNCHANGED resuming
  BY DEF ResumeRequested, ReminderRequested
<1>2. SavesOK' /\ JobsOK' /\ BuriedOK' /\ ImagesOK' /\ LatestOK'
  BY <1>1, QuietIs
<1>3. DraftsTypeOK'
  <2>1. shown \in Seq(Rows)
    BY DEF DraftsInv, DraftsTypeOK
  <2>2. /\ resuming' = NoList \/ resuming' \in [list: Seq(Rows), id: Sessions]
        /\ reminding' = NoList \/ reminding' \in Seq(Rows)
    BY <2>1, <1>1 DEF DraftsInv, DraftsTypeOK
  <2>. QED BY <2>2, <1>1 DEF DraftsInv, DraftsTypeOK, editing
<1>4. ListsOK' /\ FeedOK'
  BY <1>1 DEF DraftsInv, ListsOK, FeedOK, Begun, editing
<1>. QED BY <1>2, <1>3, <1>4 DEF DraftsInv

\* A list that is written back holds only what was stored once, and is called stale when it
\* differs.
LEMMA StepShows == DraftsInv /\ (Resumed \/ ReminderSet) => DraftsInv'
<1>. SUFFICES ASSUME DraftsInv, Resumed \/ ReminderSet PROVE DraftsInv'
  OBVIOUS
<1>1. /\ UNCHANGED <<editing, shelf, jobs, feed, flawed, dropped, buried>>
      /\ \/ resuming # NoList /\ (Shows(resuming.list) \/ UNCHANGED <<shown, stale>>)
         \/ reminding # NoList /\ (Shows(reminding) \/ UNCHANGED <<shown, stale>>)
      /\ resuming' \in {resuming, NoList} /\ reminding' \in {reminding, NoList}
  BY DEF Resumed, ReminderSet
<1>2. SavesOK' /\ JobsOK' /\ BuriedOK' /\ ImagesOK' /\ LatestOK'
  BY <1>1, QuietIs
<1>3. /\ shown' \in Seq(Rows) /\ stale' \in BOOLEAN
      /\ \A z \in Ids(shown') : Begun(z)
      /\ shown' = shelf \/ feed \/ stale'
  <2>1. ASSUME NEW list \in Seq(Rows), \A z \in Ids(list) : Begun(z), Shows(list)
        PROVE  /\ shown' \in Seq(Rows) /\ stale' \in BOOLEAN
               /\ \A z \in Ids(shown') : Begun(z)
               /\ shown' = shelf \/ feed \/ stale'
    BY <2>1 DEF Shows, DraftsInv, DraftsTypeOK
  <2>2. CASE UNCHANGED <<shown, stale>>
    BY <2>2 DEF DraftsInv, DraftsTypeOK, ListsOK, FeedOK
  <2>3. CASE resuming # NoList /\ Shows(resuming.list)
    <3>1. resuming.list \in Seq(Rows) /\ \A z \in Ids(resuming.list) : Begun(z)
      BY <2>3 DEF DraftsInv, DraftsTypeOK, ListsOK
    <3>. QED BY <3>1, <2>1, <2>3
  <2>4. CASE reminding # NoList /\ Shows(reminding)
    <3>1. reminding \in Seq(Rows) /\ \A z \in Ids(reminding) : Begun(z)
      BY <2>4 DEF DraftsInv, DraftsTypeOK, ListsOK
    <3>. QED BY <3>1, <2>1, <2>4
  <2>. QED BY <1>1, <2>2, <2>3, <2>4
<1>4. DraftsTypeOK'
  <2>1. /\ resuming' = NoList \/ resuming' \in [list: Seq(Rows), id: Sessions]
        /\ reminding' = NoList \/ reminding' \in Seq(Rows)
    BY <1>1 DEF DraftsInv, DraftsTypeOK
  <2>. QED BY <2>1, <1>1, <1>3 DEF DraftsInv, DraftsTypeOK, editing
<1>5. ListsOK' /\ FeedOK'
  BY <1>1, <1>3 DEF DraftsInv, ListsOK, FeedOK, Begun, editing
<1>. QED BY <1>2, <1>4, <1>5 DEF DraftsInv

\* Rows and images survive; a session with a save under way has lost it.
LEMMA StepKilled == DraftsInv /\ DraftsKilled => DraftsInv'
<1>. SUFFICES ASSUME DraftsInv, DraftsKilled PROVE DraftsInv'
  OBVIOUS
<1>1. /\ editor' = [s \in Sessions |-> IF editor[s].pc = "open"
                      THEN [editor[s] EXCEPT !.pc = "closed", !.timer = 0] ELSE editor[s]]
      /\ saving' = [s \in Sessions |-> [v \in ScenesOf(s) |-> "none"]]
      /\ flawed' = flawed \cup {s \in Sessions : InFlight(s) # {}}
      /\ jobs' = <<>> /\ shown' = <<>> /\ feed' = TRUE /\ stale' = FALSE
      /\ resuming' = NoList /\ reminding' = NoList
      /\ UNCHANGED <<image, shelf, dropped, buried>>
  BY DEF DraftsKilled
<1>0. /\ flawed' = flawed \cup {s \in Sessions : InFlight(s) # {}}
      /\ jobs' = <<>> /\ shown' = <<>> /\ feed' = TRUE /\ UNCHANGED <<image, shelf, dropped, buried>>
  BY <1>1
<1>2. \A z \in Sessions : InFlight(z)' = {}
  BY <1>1 DEF InFlight
<1>3. ASSUME NEW z \in Sessions
      PROVE  /\ editor'[z] \in EditorRecs(z) /\ editor'[z].timer = 0
             /\ editor'[z].scene = editor[z].scene /\ editor'[z].fired = editor[z].fired
             /\ editor'[z].pc = "none" <=> editor[z].pc = "none"
             /\ editor[z].pc = "closed" => editor'[z].pc = "closed"
  <2>1. /\ editor[z] \in EditorRecs(z) /\ Edits[z] \in Nat
        /\ editor[z].pc # "open" => editor[z].timer = 0
    BY TypesAre DEF DraftsInv
  <2>2. CASE editor[z].pc = "open"
    <3>1. editor'[z] = [pc |-> "closed", scene |-> editor[z].scene, timer |-> 0, fired |-> editor[z].fired]
      BY <2>1, <2>2, <1>1 DEF EditorRecs
    <3>2. 0 \in 0..Edits[z]
      BY <2>1
    <3>. QED BY <2>1, <2>2, <3>1, <3>2 DEF EditorRecs
  <2>3. CASE editor[z].pc # "open"
    BY <2>1, <2>3, <1>1
  <2>. QED BY <2>2, <2>3
<1>4. DraftsTypeOK'
  <2>1. \A z \in Sessions : /\ editor'[z] \in EditorRecs(z) /\ editor'[z].timer = 0
                            /\ saving'[z] \in [ScenesOf(z) -> How]
    BY <1>1, <1>3 DEF How
  <2>2. jobs' \in Seq(JobRecs) /\ shown' \in Seq(Rows)
    BY <1>0
  <2>4. DOMAIN editor' = Sessions /\ DOMAIN saving' = Sessions
    BY <1>1
  <2>3. flawed' \in SUBSET Sessions
    BY <1>1 DEF DraftsInv, DraftsTypeOK
  <2>. QED BY <2>1, <2>2, <2>3, <2>4, <1>1 DEF DraftsInv, DraftsTypeOK, How, JobRecs, EditorRecs
<1>5. SavesOK'
  <2>1. ASSUME NEW z \in Sessions
        PROVE  editor'[z].timer <= editor'[z].scene /\ (editor'[z].pc = "none" => editor'[z].scene = 0)
    <3>1. editor[z].scene \in 0..Edits[z] /\ Edits[z] \in Nat
      BY TypesAre DEF DraftsInv
    <3>2. 0 <= editor[z].scene
      BY <3>1
    <3>. QED BY <3>2, <1>3 DEF DraftsInv, SavesOK
  <2>. QED BY <2>1, <1>2 DEF SavesOK
<1>6. JobsOK' /\ FeedOK'
  BY <1>0 DEF JobsOK, FeedOK
<1>7. ListsOK'
  <2>1. Ids(shelf) \subseteq Sessions /\ Ids(shown') = {}
    BY <1>0, TypesAre DEF DraftsInv, Ids
  <2>2. \A z \in Ids(shelf) : editor'[z].pc # "none"
    BY <2>1, <1>3 DEF DraftsInv, ListsOK, Begun
  <2>. QED BY <2>1, <2>2, <1>1 DEF ListsOK, Begun
<1>8. BuriedOK'
  BY <1>1, <1>2, <1>3 DEF DraftsInv, DraftsTypeOK, BuriedOK, OnShelf
<1>9. ImagesOK'
  <2>. SUFFICES ASSUME NEW z \in Sessions \ flawed'
                PROVE  \/ image[z] = "whole"
                       \/ image[z] = "none" /\ ~OnShelf(z) /\ \A w \in ScenesOf(z) : saving'[z][w] # "store"
    BY <1>1 DEF ImagesOK, OnShelf
  <2>1. z \in Sessions \ flawed /\ \A w \in ScenesOf(z) : saving[z][w] # "write" /\ saving'[z][w] = "none"
    BY <1>1 DEF InFlight
  <2>. QED BY <2>1 DEF DraftsInv, ImagesOK
<1>10. LatestOK'
  <2>. SUFFICES ASSUME NEW z \in Sessions, z \notin flawed' PROVE LatestIsStored(z)'
    BY DEF LatestOK, LatestIsStored
  <2>1. InFlight(z) = {} /\ z \notin flawed
    BY <1>0
  <2>2. LatestIsStored(z)
    BY DEF DraftsInv, LatestOK
  <2>3. editor'[z].fired = editor[z].fired
    BY <1>3
  <2>. QED BY <2>1, <2>2, <2>3, <1>0 DEF LatestIsStored, OnShelf
<1>. QED BY <1>4, <1>5, <1>6, <1>7, <1>8, <1>9, <1>10 DEF DraftsInv

-----------------------------------------------------------------------------
\* The invariant holds of every behaviour of the drafts.
THEOREM DraftsHold == DraftsSpec => []DraftsInv
<1>1. DraftsInit => DraftsInv
  BY DraftsInitInv
<1>2. DraftsInv /\ [DraftsNext]_draftsVars => DraftsInv'
  <2>. SUFFICES ASSUME DraftsInv, [DraftsNext]_draftsVars PROVE DraftsInv'
    OBVIOUS
  <2>1. CASE UNCHANGED draftsVars
    <3>1. UNCHANGED <<editing, shelf, jobs, feed, listing, flawed, dropped, buried>>
      BY <2>1 DEF draftsVars
    <3>2. SavesOK' /\ JobsOK' /\ BuriedOK' /\ ImagesOK' /\ LatestOK'
      BY <3>1, QuietIs
    <3>3. DraftsTypeOK'
      BY <3>1 DEF DraftsInv, DraftsTypeOK, editing, listing
    <3>4. ListsOK' /\ FeedOK'
      BY <3>1 DEF DraftsInv, ListsOK, FeedOK, Begun, editing, listing
    <3>. QED BY <3>2, <3>3, <3>4 DEF DraftsInv
  <2>2. CASE DraftsNext
    <3>1. ASSUME NEW s \in Sessions, SessionStep(s) PROVE DraftsInv'
      BY <3>1, StepEdits, StepTimer DEF SessionStep
    <3>2. ASSUME NEW s \in Sessions, NEW v \in ScenesOf(s), SaveStep(s, v) \/ ImageFails(s, v)
          PROVE  DraftsInv'
      BY <3>2, StepOpenImage, StepWriteImage, StepImageFails DEF SaveStep
    <3>. QED BY <2>2, <3>1, <3>2, StepSaveCommits, StepDeleteCommits, StepJobFails, StepListUpdated,
                StepDeleteRequested, StepRequested, StepShows, StepKilled DEF DraftsNext, JobStep
  <2>. QED BY <2>1, <2>2
<1>. QED BY <1>1, <1>2, PTL DEF DraftsSpec

\* So drafts are kept.
LEMMA DraftsFollow == DraftsInv => DraftsKept /\ DraftsTypeOK
<1>. SUFFICES ASSUME DraftsInv PROVE DraftsKept /\ DraftsTypeOK
  OBVIOUS
<1>1. \A s \in Sessions : LatestIsStored(s)
  BY DEF DraftsInv, LatestOK
<1>2. \A s \in Sessions : ImageIsWhole(s)
  BY DEF DraftsInv, ImagesOK, ImageIsWhole
<1>3. \A s \in buried : ~OnShelf(s)
  BY DEF DraftsInv, BuriedOK
<1>. QED BY <1>1, <1>2, <1>3 DEF DraftsInv, DraftsKept, FeedOK

\* The last scene that was saved is on the shelf, with its image, until it is deleted or evicted;
\* what was deleted stays away; and the list shows what is stored, but for updates under way and
\* lists written back (DraftsKept), for any sessions, edits and length of the shelf.
THEOREM WhatIsSavedIsKept == DraftsSpec => []DraftsKept
BY DraftsHold, DraftsFollow, PTL

\* Every variable of the drafts keeps its type (DraftsTypeOK); among them: the shelf is never longer
\* than its cap, and holds a draft once.
THEOREM DraftsTyped == DraftsSpec => []DraftsTypeOK
BY DraftsHold, DraftsFollow, PTL

\* A row that leaves was deleted, or the first when a new one found no room.
LEMMA LeavesByRule ==
  ASSUME DraftsInv, [DraftsNext]_draftsVars, NEW s \in Sessions, OnShelf(s), s \notin Ids(shelf')
  PROVE  \/ jobs # <<>> /\ Job.op = "delete" /\ Job.id = s
         \/ /\ Head(shelf).id = s /\ Len(shelf') = MaxDrafts
            /\ \E n \in Ids(shelf') : ~OnShelf(n)
<1>1. DraftsTypeOK /\ Apart(shelf) /\ shelf \in Seq(Rows)
  BY DEF DraftsInv, DraftsTypeOK, Apart
<1>2. PICK row \in Kept(shelf) : row.id = s
  BY RowsAre DEF OnShelf
<1>3. CASE SaveCommits
  <2>1. PICK n, v : n = Job.id /\ v = Job.scene
    OBVIOUS
  <2>2. /\ Done("save") /\ shelf' = Append(Without(MakeRoom(n), n), [id |-> n, scene |-> v])
    BY <1>3, <2>1 DEF SaveCommits
  <2>3. n \in Sessions /\ v \in Nat
    BY <2>1, <2>2, JobIs DEF JobRecs
  <2>. DEFINE new == [id |-> n, scene |-> v]
  <2>4. /\ new \in Kept(shelf')
        /\ \/ \A r \in Kept(shelf) : r.id # n => r \in Kept(shelf')
           \/ /\ ~OnShelf(n) /\ Len(shelf') = MaxDrafts
              /\ \A r \in Kept(shelf) : r # Head(shelf) => r \in Kept(shelf')
    <3>. HIDE DEF new
    <3>. QED BY <2>2, <2>3, <1>1, RoomIs DEF new
  <2>5. n \in Ids(shelf') /\ row \notin Kept(shelf') /\ n # s
    <3>1. new.id = n
      OBVIOUS
    <3>. QED BY <3>1, <2>4, <1>2, RowsAre
  <2>6. /\ ~OnShelf(n) /\ Len(shelf') = MaxDrafts /\ row = Head(shelf)
    BY <2>4, <2>5, <1>2
  <2>. QED BY <2>5, <2>6, <1>2
<1>4. CASE DeleteCommits
  <2>1. PICK n : n = Job.id
    OBVIOUS
  <2>2. Done("delete") /\ shelf' = Without(shelf, n)
    BY <1>4, <2>1 DEF DeleteCommits
  <2>3. Kept(shelf') = {r \in Kept(shelf) : r.id # n}
    BY <2>2, <1>1, WithoutIs
  <2>4. n = s
    BY <2>3, <1>2, RowsAre
  <2>. QED BY <2>1, <2>2, <2>4 DEF Done
<1>5. CASE UNCHANGED shelf
  BY <1>5 DEF OnShelf
<1>6. SaveCommits \/ DeleteCommits \/ UNCHANGED shelf
  BY DEF DraftsNext, draftsVars, SessionStep, SaveStep, JobStep, SceneChanged, CloseEditor, TimerFires,
         OpenImage, WriteImage, ImageFails, JobFails, ListUpdated, DeleteRequested, ResumeRequested,
         ReminderRequested, Resumed, ReminderSet, DraftsKilled
<1>. QED BY <1>3, <1>4, <1>5, <1>6

\* A draft leaves the shelf by deletion, or as the one saved longest ago (DraftsLeave), for any
\* sessions and length of the shelf.
THEOREM DraftsLeaveByRule == DraftsSpec => DraftsLeave
<1>1. DraftsInv /\ [DraftsNext]_draftsVars =>
        [\A s \in Sessions :
           OnShelf(s) /\ s \notin Ids(shelf') =>
             \/ jobs # <<>> /\ Job.op = "delete" /\ Job.id = s
             \/ Head(shelf).id = s /\ Len(shelf') = MaxDrafts
                /\ \E n \in Ids(shelf') : ~OnShelf(n)]_draftsVars
  BY LeavesByRule
<1>. QED BY <1>1, DraftsHold, PTL DEF DraftsSpec, DraftsLeave

-----------------------------------------------------------------------------
(***************************************************************************)
(* The run Clients: each behaviour of it is a behaviour of the app's session, *)
(* of the editor, of the drafts and of the portal.                         *)
(***************************************************************************)

\* Every part starts as it does on its own.
LEMMA ClientsStart == ClientsInit => Init /\ EditorInit /\ DraftsInit /\ WebInit
  BY DEF ClientsInit

\* What the two foci on drafts do are steps of the module.
LEMMA FocusedDraftSteps == DraftStep \/ ListStep => DraftsNext
<1>1. DraftStep => DraftsNext
  BY DEF DraftStep, DraftsNext
<1>2. ListStep => DraftsNext
  BY ListAssumption DEF ListStep, DraftsNext
<1>. QED
  BY <1>1, <1>2

\* A step of the run is for each part one of its own, or leaves it alone.
LEMMA ClientsStep ==
  [ClientsNext]_clientVars =>
    [Next]_vars /\ [EditorNext]_editorVars /\ [DraftsNext]_draftsVars /\ [WebNext]_webVars
<1>1. CASE UNCHANGED clientVars
  BY <1>1 DEF clientVars
<1>2. CASE ClientsNext
  BY <1>2, FocusedDraftSteps DEF ClientsNext
<1>. QED
  BY <1>1, <1>2

\* The run composes the parts of the clients, each behaving as its own specification allows.
THEOREM ClientsAreTheirParts == ClientsSpec => Spec /\ EditorSpec /\ DraftsSpec /\ WebSpec
  BY ClientsStart, ClientsStep, PTL DEF ClientsSpec, Spec, EditorSpec, DraftsSpec, WebSpec

\* Every variable of the editor, the drafts and the portal keeps its type throughout the run.
THEOREM ClientsTyped == ClientsSpec => []ClientsTypeOK
<1>1. WebInv => WebTypeOK
  BY DEF WebInv
<1>. QED
  BY ClientsAreTheirParts, EditorTyped, DraftsTyped, PortalHolds, <1>1, PTL DEF ClientsTypeOK
=============================================================================
