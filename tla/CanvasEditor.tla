---------------------------- MODULE CanvasEditor ----------------------------
(***************************************************************************)
(* CanvasEditorBloc: the text layers of the scene being edited, which the  *)
(* gestures place and resize and which must stay clear of the bands a feed *)
(* covers at the top and the bottom.  Every handler is synchronous: one    *)
(* action each.  Colours and texts are left out.                           *)
(*                                                                         *)
(* Positions are fractions of the canvas, here in units small enough that  *)
(* those of every height below are whole.                                  *)
(***************************************************************************)
EXTENDS Integers, Sequences
LOCAL INSTANCE SequencesExt

CONSTANTS LayerIds, \* uuids of layers
          NoLayer,  \* null
          Scenes,   \* scenes the editor is opened with: new ones, and drafts
          Drags,    \* where a drag would put a layer
          Pinches   \* the font sizes a pinch would give

ASSUME LayerAssumption == NoLayer \notin LayerIds

VARIABLES
  scene,    \* the canvas height in pixels, 0 before SceneLoaded, and the layers
  selected, \* selectedLayerId
  placed,   \* history: layers a handler clamped since the ratio changed
  carried   \* history: layers that were clear when it changed, untouched since

editorVars == <<scene, selected, placed, carried>>

Unit == 34560
Grid == 100 * Unit

TopObstruction    == 10 * Unit
BottomObstruction == 15 * Unit
BoxWidth          == 80 * Unit  \* _defaultNormalizedMaxWidth

MinFont     == 24
DefaultFont == 64
MaxFont     == 220

MaxTextLayers == 2
RatioHeights  == {1080, 1350}  \* of a canvas 1080 wide: 1:1 and 4:5

MinHeight     == 1024         \* of an image a provider draws

LayerRecs == [id: LayerIds, x: 0..(Grid - BoxWidth), y: Int, font: MinFont..MaxFont]

\* A scene holds an image and, if it is a draft, layers the editor left there.
ASSUME SceneAssumption ==
  /\ \A s \in Scenes :
       /\ s \in [height: Nat, layers: Seq(LayerRecs)] /\ s.height >= MinHeight
       /\ \A i, j \in DOMAIN s.layers : s.layers[i].id = s.layers[j].id => i = j
  /\ Drags \subseteq [x: Int, y: Int] /\ Pinches \subseteq Int

Layers == scene.layers
IdsIn(layers) == {layers[i].id : i \in DOMAIN layers}

EditorTypeOK ==
  /\ scene \in [height: Nat, layers: Seq(LayerRecs)]
  /\ selected \in IdsIn(Layers) \cup {NoLayer}
  /\ placed \subseteq IdsIn(Layers) /\ carried \subseteq IdsIn(Layers)

EditorInit ==
  /\ scene = [height |-> 0, layers |-> <<>>]
  /\ selected = NoLayer
  /\ placed = {} /\ carried = {}

-----------------------------------------------------------------------------
Clamp(n, low, high) == IF n < low THEN low ELSE IF n > high THEN high ELSE n

\* One line, 1.55 times the font size, as a fraction of the canvas height.
Tall(font, height) == (font * 155 * Unit) \div height

SafeY(y, font, height) ==
  LET lowest == Grid - BottomObstruction - Tall(font, height)
  IN IF lowest < TopObstruction THEN TopObstruction ELSE Clamp(y, TopObstruction, lowest)

Clear(layer, height) ==
  /\ TopObstruction <= layer.y
  /\ layer.y + Tall(layer.font, height) <= Grid - BottomObstruction
  /\ 0 <= layer.x /\ layer.x + BoxWidth <= Grid

Touched(id) == placed' = placed \cup {id} /\ carried' = carried \ {id}

-----------------------------------------------------------------------------
Ready == scene.height # 0

SceneLoaded ==
  /\ ~Ready
  /\ \E s \in Scenes : scene' = s
  /\ selected' = NoLayer
  /\ UNCHANGED <<placed, carried>>

\* A tap on a layer, or beside all of them.
LayerSelected(id) ==
  /\ Ready
  /\ selected' = id
  /\ UNCHANGED <<scene, placed, carried>>

LayerDragged(i, at) ==
  LET layer == Layers[i]
      moved == [layer EXCEPT !.x = Clamp(at.x, 0, Grid - BoxWidth),
                             !.y = SafeY(at.y, layer.font, scene.height)]
  IN /\ scene' = [scene EXCEPT !.layers[i] = moved]
     /\ Touched(layer.id)
     /\ UNCHANGED selected

\* Mutation: the layer stays where it is.
LayerScaledInPlace(i, font) ==
  /\ scene' = [scene EXCEPT !.layers[i].font = Clamp(font, MinFont, MaxFont)]
  /\ Touched(Layers[i].id)
  /\ UNCHANGED selected

LayerScaled(i, font) ==
  LET layer == Layers[i]
      size  == Clamp(font, MinFont, MaxFont)
      grown == [layer EXCEPT !.font = size, !.y = SafeY(layer.y, size, scene.height)]
  IN /\ scene' = [scene EXCEPT !.layers[i] = grown]
     /\ Touched(layer.id)
     /\ UNCHANGED selected

\* A little below the layer before it.
LayerAdded(id) ==
  LET y == (35 + 15 * Len(Layers)) * Unit
      new == [id |-> id, x |-> 10 * Unit, y |-> SafeY(y, DefaultFont, scene.height),
              font |-> DefaultFont]
  IN /\ Ready /\ Len(Layers) < MaxTextLayers
     /\ id \notin IdsIn(Layers)
     /\ scene' = [scene EXCEPT !.layers = Append(@, new)]
     /\ selected' = id
     /\ Touched(id)

LayerRemoved(i) ==
  LET id == Layers[i].id
  IN /\ scene' = [scene EXCEPT !.layers = RemoveAt(@, i)]
     /\ selected' = IF selected = id THEN NoLayer ELSE selected
     /\ placed' = placed \ {id} /\ carried' = carried \ {id}

\* The layers keep their fractions.
AspectRatioChanged(height) ==
  /\ Ready /\ height # scene.height
  /\ scene' = [scene EXCEPT !.height = height]
  /\ placed' = {}
  /\ carried' = {Layers[i].id : i \in {j \in DOMAIN Layers : Clear(Layers[j], scene.height)}}
  /\ UNCHANGED selected

EditorNext ==
  \/ SceneLoaded
  \/ \E id \in IdsIn(Layers) \cup {NoLayer} : LayerSelected(id)
  \/ \E i \in DOMAIN Layers :
       \/ \E at \in Drags : LayerDragged(i, at)
       \/ \E font \in Pinches : LayerScaled(i, font)
       \/ LayerRemoved(i)
  \/ \E id \in LayerIds : LayerAdded(id)
  \/ \E height \in RatioHeights : AspectRatioChanged(height)

EditorSpec == EditorInit /\ [][EditorNext]_editorVars

-----------------------------------------------------------------------------
\* However layers are added, dragged and resized, one that was touched under the
\* present ratio lies on the canvas and clear of both bands, also where it would
\* have grown over an edge.
LayersClear ==
  \A i \in DOMAIN Layers : Layers[i].id \in placed => Clear(Layers[i], scene.height)

\* _onAspectRatioChanged: "a layer that was safely positioned under the old ratio
\* stays safely positioned under the new one without adjustment".
StaysSafe ==
  \A i \in DOMAIN Layers : Layers[i].id \in carried => Clear(Layers[i], scene.height)
=============================================================================
